---- MODULE Spec2Model ----
(***************************************************************************)
(* Visitor management (vms-backend/server.js, db.js, migrations.sql, and   *)
(* src/App.jsx): the tables visitors, users and otps, the handlers of      *)
(*   POST /visitors, POST /visitors/:id/checkout, GET /visitors,           *)
(*   GET /reports/daily, GET /reports/monthly,                             *)
(*   POST /auth/register, POST /auth/send-otp, POST /auth/verify-otp,      *)
(* and, of the client, the normalization of the timestamps it receives,    *)
(* the CSV export and the registration form.                               *)
(*                                                                         *)
(* JavaScript and SQL values are tagged records, so that undefined, null,  *)
(* NaN, numbers and strings stay distinct.  A string is the sequence of    *)
(* its pieces (single characters where the code looks at characters); an   *)
(* integer of ten digits or more is kept as its decimal digits.            *)
(*                                                                         *)
(* A handler is one action where calls are taken one at a time; `last`     *)
(* keeps the request handled last, its response and the store it found,    *)
(* so that a property of a call is a property of the state after it.       *)
(* Where calls overlap a handler is one action per await, and `calls`      *)
(* keeps each call's position, local variables and response.               *)
(*                                                                         *)
(* Specifications: Spec drives check-in, check-out and list with everyday  *)
(* requests; SpecCheckIn, SpecCheckOut, SpecList, SpecReports, SpecSized   *)
(* and SpecAnySize drive one operation with requests of every kind;        *)
(* SpecPhoto checks in with photos and a disk that can fail; SpecAuth      *)
(* drives every operation with credentials of every kind; SpecFrame checks *)
(* out visitors whose fields are filled in; SpecRace overlaps check-outs,  *)
(* SpecOtp logins by code, SpecUsers registrations and logins by code;     *)
(* SpecNormalize and SpecExport apply the client's normalization and CSV   *)
(* export to inputs of every kind; SpecForm is the registration form in    *)
(* the hands of a visitor.                                                 *)
(***************************************************************************)
EXTENDS Integers, Sequences, FiniteSets, TLC

VARIABLES
    clock,      \* Date.now(): the server's wall clock, in milliseconds
    visitors,   \* rows of table visitors, in insertion (rowid) order
    uploads,    \* names of the files in UPLOADS_DIR
    last,       \* the request handled last, with its response
    users,      \* rows of table users
    otps,       \* rows of table otps, in insertion (rowid) order
    calls,      \* the handler calls that await the database, and the finished ones
    client      \* state of the CheckInAndList component, with what it posted

vars == <<clock, visitors, uploads, last, users, otps, calls, client>>

----------------------------------------------------------------------------
(* Bounds of the model *)

\* size of the pool uuidv4() draws from
NumUUIDs == 2
\* the longest run of equal digits in a timestamp the client is handed
MaxFill == 10
\* the clock starts at StartSec seconds after the epoch ...
StartSec == 2
\* ... and is followed up to MaxSec seconds after the epoch
MaxSec == 3

----------------------------------------------------------------------------
(* JavaScript / SQL values *)

Undefined == [t |-> "undefined"]
Null == [t |-> "null"]
NaN == [t |-> "NaN"]
Num(n) == [t |-> "number", v |-> n]
Str(s) == [t |-> "string", v |-> s]
\* an integer of ten or more decimal digits (a count of milliseconds, for
\* one): its sign and the digits of its magnitude, without leading zeros
Big(sign, ds) == [t |-> "bignumber", sign |-> sign, digits |-> ds]

\* typeof x === 'number', NaN left aside
IsNumber(x) == x.t \in {"number", "bignumber"}

\* ToBoolean: what `!x`, `x ? a : b` and `x || y` test
Truthy(x) ==
    CASE x.t = "string" -> x.v # <<>>
      [] x.t = "number" -> x.v # 0
      [] x.t = "bignumber" -> TRUE
      [] OTHER -> FALSE

\* x || y
Or(x, y) == IF Truthy(x) THEN x ELSE y

\* s.startsWith(p), on sequences of pieces
startsWith(s, p) == Len(s) >= Len(p) /\ SubSeq(s, 1, Len(p)) = p

DigitChars == <<"0", "1", "2", "3", "4", "5", "6", "7", "8", "9">>

IsDigit(c) == \E i \in 1..Len(DigitChars) : DigitChars[i] = c

DigitVal(c) == (CHOOSE i \in 1..Len(DigitChars) : DigitChars[i] = c) - 1

RECURSIVE SkipWhite(_)
SkipWhite(s) == IF s # <<>> /\ Head(s) = " " THEN SkipWhite(Tail(s)) ELSE s

RECURSIVE DigitPrefix(_)
DigitPrefix(s) ==
    IF s # <<>> /\ IsDigit(Head(s)) THEN <<Head(s)>> \o DigitPrefix(Tail(s)) ELSE <<>>

RECURSIVE Decimal(_, _)
Decimal(ds, acc) ==
    IF ds = <<>> THEN acc ELSE Decimal(Tail(ds), 10 * acc + DigitVal(Head(ds)))

RECURSIVE NatToString(_)
NatToString(n) ==
    IF n < 10 THEN <<DigitChars[n + 1]>>
    ELSE NatToString(n \div 10) \o <<DigitChars[(n % 10) + 1]>>

\* String(n) of an integer
ToString10(n) == IF n < 0 THEN <<"-">> \o NatToString(-n) ELSE NatToString(n)

RECURSIVE StripZeros(_)
StripZeros(ds) == IF Len(ds) > 1 /\ Head(ds) = "0" THEN StripZeros(Tail(ds)) ELSE ds

\* the number a sign and a non-empty run of decimal digits denote
MakeNumber(sign, ds) ==
    LET sig == StripZeros(ds) IN
    IF Len(sig) <= 9 THEN Num(sign * Decimal(sig, 0)) ELSE Big(sign, sig)

\* the decimal digits of the magnitude of a number
DigitsOf(x) == IF x.t = "bignumber" THEN x.digits ELSE NatToString(IF x.v < 0 THEN -x.v ELSE x.v)

\* String(x) of an integer
NumberToString(x) ==
    IF x.t = "bignumber"
    THEN (IF x.sign < 0 THEN <<"-">> ELSE <<>>) \o x.digits
    ELSE ToString10(x.v)

\* digit by digit, on runs of the same length
RECURSIVE DigitsLeq(_, _)
DigitsLeq(a, b) ==
    \/ a = <<>>
    \/ DigitVal(Head(a)) < DigitVal(Head(b))
    \/ Head(a) = Head(b) /\ DigitsLeq(Tail(a), Tail(b))

\* a <= b on numbers
Leq(a, b) ==
    CASE a.t = "number" /\ b.t = "number" -> a.v <= b.v
      [] a.t = "number" /\ b.t = "bignumber" -> b.sign > 0
      [] a.t = "bignumber" /\ b.t = "number" -> a.sign < 0
      [] OTHER ->
           IF a.sign # b.sign THEN a.sign < b.sign
           ELSE LET lo == IF a.sign > 0 THEN a.digits ELSE b.digits
                    hi == IF a.sign > 0 THEN b.digits ELSE a.digits
                IN  \/ Len(lo) < Len(hi)
                    \/ Len(lo) = Len(hi) /\ DigitsLeq(lo, hi)

\* parseInt(x, 10): the argument is converted to a string, leading white
\* space is skipped, an optional sign and the longest run of digits are
\* read; NaN when there is no digit
parseInt(x) ==
    LET s == CASE x.t = "string" -> x.v
               [] IsNumber(x) -> NumberToString(x)
               [] OTHER -> <<x.t>>
        w == SkipWhite(s)
        signed == w # <<>> /\ Head(w) \in {"-", "+"}
        ds == DigitPrefix(IF signed THEN Tail(w) ELSE w)
    IN  IF ds = <<>> THEN NaN
        ELSE IF signed /\ Head(w) = "-" THEN MakeNumber(-1, ds)
        ELSE MakeNumber(1, ds)

\* Math.floor(Date.now() / 1000)
EpochSeconds == clock \div 1000

----------------------------------------------------------------------------
(* Credentials *)

\* the rows of table users: the actors a token can have been signed for
UserIds == {Str(<<"user1">>)}

\* jwt.sign(payload, JWT_SECRET, ...)
signToken(payload) == <<"jwt.", payload.id.v[1], ".sig">>

\* jwt.verify(token, JWT_SECRET): the decoded payload of a token that
\* signToken produced, a throw (ok = FALSE) for anything else
jwt_verify(token) ==
    IF \E u \in UserIds : token = signToken([id |-> u])
    THEN [ok |-> TRUE, decoded |-> [id |-> CHOOSE u \in UserIds : token = signToken([id |-> u])]]
    ELSE [ok |-> FALSE]

\* the part of the Authorization header both authMiddleware and
\* POST /visitors test: present and starting with 'Bearer '
HasBearer(auth) == Truthy(auth) /\ startsWith(auth.v, <<"Bearer ">>)

\* a middleware that looks at the scheme only and never verifies the token
authMiddleware_AnyBearer(req) ==
    IF ~HasBearer(req.auth) THEN [ok |-> FALSE, status |-> 401, error |-> "Missing token"]
    ELSE [ok |-> TRUE, user |-> [id |-> Str(Tail(req.auth.v))]]

\* authMiddleware: 401 without a bearer token or when verification throws
authMiddleware(req) ==
    LET auth == req.auth IN
    IF ~HasBearer(auth) THEN [ok |-> FALSE, status |-> 401, error |-> "Missing token"]
    ELSE LET v == jwt_verify(Tail(auth.v)) IN
         IF v.ok THEN [ok |-> TRUE, user |-> v.decoded]
         ELSE [ok |-> FALSE, status |-> 401, error |-> "Invalid token"]

----------------------------------------------------------------------------
(* The database: db.run / db.all on table visitors *)

\* sqlite3 binds NaN and undefined as NULL
Bind(x) == IF x.t \in {"NaN", "undefined"} THEN Null ELSE x

\* the table without its primary key
ConstraintsOk_NoPrimaryKey(tbl, row) ==
    /\ row.name # Null
    /\ row.checkin_time # Null
    /\ row.created_by = Null \/ row.created_by \in UserIds

\* table visitors: id PRIMARY KEY, name and checkin_time NOT NULL,
\* created_by REFERENCES users(id)
ConstraintsOk(tbl, row) ==
    /\ \A i \in DOMAIN tbl : tbl[i].id # row.id
    /\ row.name # Null
    /\ row.checkin_time # Null
    /\ row.created_by = Null \/ row.created_by \in UserIds

\* INSERT OR REPLACE: a row with the same id is replaced by the new one
InsertVisitor_OrReplace(tbl, p) ==
    LET row == [id |-> p[1], name |-> p[2], phone |-> p[3],
                address |-> p[4], purpose |-> p[5], company |-> p[6],
                personToMeet |-> p[7], photo |-> p[8],
                checkin_time |-> p[9], checkout_time |-> Null,
                created_by |-> p[10]]
        kept == SelectSeq(tbl, LAMBDA r : r.id # row.id)
    IN  IF IsNumber(row.checkin_time) THEN [ok |-> TRUE, table |-> Append(kept, row)]
        ELSE [ok |-> FALSE, table |-> tbl]

\* INSERT INTO visitors (...) VALUES (...): the statement fails on a
\* violated constraint; checkout_time is not listed and defaults to NULL
InsertVisitor(tbl, p) ==
    LET row == [id |-> Bind(p[1]), name |-> Bind(p[2]), phone |-> Bind(p[3]),
                address |-> Bind(p[4]), purpose |-> Bind(p[5]), company |-> Bind(p[6]),
                personToMeet |-> Bind(p[7]), photo |-> Bind(p[8]),
                checkin_time |-> Bind(p[9]), checkout_time |-> Null,
                created_by |-> Bind(p[10])]
    IN  IF ConstraintsOk(tbl, row) THEN [ok |-> TRUE, table |-> Append(tbl, row)]
        ELSE [ok |-> FALSE, table |-> tbl]

\* DELETE FROM visitors WHERE id = ?: a check-out that drops the record
UpdateCheckout_Delete(tbl, checkout_time, id) ==
    SelectSeq(tbl, LAMBDA r : r.id # id)

\* UPDATE ... WHERE id = ? AND checkout_time IS NULL: written once
UpdateCheckout_OnlyIfNull(tbl, checkout_time, id) ==
    [i \in DOMAIN tbl |->
        IF tbl[i].id = Bind(id) /\ tbl[i].checkout_time = Null
        THEN [tbl[i] EXCEPT !.checkout_time = Bind(checkout_time)]
        ELSE tbl[i]]

\* UPDATE visitors SET checkout_time = ?: the WHERE clause left out
UpdateCheckout_EveryRow(tbl, checkout_time, id) ==
    [i \in DOMAIN tbl |-> [tbl[i] EXCEPT !.checkout_time = Bind(checkout_time)]]

\* a time below the stored one is not written
UpdateCheckout_KeepLatest(tbl, checkout_time, id) ==
    [i \in DOMAIN tbl |->
        IF tbl[i].id = Bind(id) /\ (tbl[i].checkout_time = Null
                                    \/ Leq(tbl[i].checkout_time, Bind(checkout_time)))
        THEN [tbl[i] EXCEPT !.checkout_time = Bind(checkout_time)]
        ELSE tbl[i]]

\* UPDATE visitors SET checkout_time = ? WHERE id = ?
UpdateCheckout(tbl, checkout_time, id) ==
    [i \in DOMAIN tbl |->
        IF tbl[i].id = Bind(id)
        THEN [tbl[i] EXCEPT !.checkout_time = Bind(checkout_time)]
        ELSE tbl[i]]

\* x >= lo AND x < hi: the upper bound left out
Between_Exclusive(x, lo, hi) ==
    /\ IsNumber(x) /\ IsNumber(lo) /\ IsNumber(hi)
    /\ Leq(lo, x) /\ ~Leq(hi, x)

\* x BETWEEN lo AND hi: never true when an operand is NULL
Between(x, lo, hi) ==
    /\ IsNumber(x) /\ IsNumber(Bind(lo)) /\ IsNumber(Bind(hi))
    /\ Leq(lo, x) /\ Leq(x, hi)

\* SELECT * FROM visitors WHERE checkin_time BETWEEN ? AND ?
\*   ORDER BY checkin_time DESC
\* every order of the matching rows that is descending in checkin_time
\* (SQL leaves the order of equal keys open)
SelectVisitors(tbl, from, to) ==
    LET match == {i \in DOMAIN tbl : Between(tbl[i].checkin_time, from, to)}
        n == Cardinality(match)
        orders == {o \in [1..n -> match] :
                      /\ \A i, j \in 1..n : i # j => o[i] # o[j]
                      /\ \A i, j \in 1..n :
                            i < j => Leq(tbl[o[j]].checkin_time, tbl[o[i]].checkin_time)}
    IN  {[k \in 1..n |-> tbl[o[k]]] : o \in orders}

----------------------------------------------------------------------------
(* Photos *)

\* `${req.protocol}://${req.get('host')}`
Base == <<"http://host">>

\* uuidv4(): a draw from the pool of identifiers
UUIDs == {Str(<<"uuid" \o ToString(i)>>) : i \in 1..NumUUIDs}

\* the data URLs the pattern /^data:(image\/[a-zA-Z]+);base64,(.+)$/ accepts:
\* pieces "data:", "image", "/", <letters>, ";base64,", <at least one piece>
Letters == {"png", "jpeg", "jpg", "webp", "gif"}

MatchDataUrl(s) ==
    /\ Len(s) >= 6
    /\ SubSeq(s, 1, 3) = <<"data:", "image", "/">>
    /\ s[4] \in Letters
    /\ s[5] = ";base64,"

\* the extension saveBase64Image picks for a mime type
ExtOfMime(sub) ==
    CASE sub = "png" -> ".png"
      [] sub \in {"jpeg", "jpg"} -> ".jpg"
      [] sub = "webp" -> ".webp"
      [] OTHER -> ".jpg"

\* saveBase64Image(dataUrl): null for a string the pattern rejects; else the
\* file uuidv4() + ext is written (a failed write throws) and its public
\* path returned
saveBase64Image(dataUrl, draw, diskOk, files) ==
    IF ~Truthy(dataUrl) \/ dataUrl.t # "string" \/ ~MatchDataUrl(dataUrl.v)
    THEN [threw |-> FALSE, url |-> Null, files |-> files]
    ELSE LET filename == <<draw.v[1], ExtOfMime(dataUrl.v[4])>> IN
         IF diskOk
         THEN [threw |-> FALSE, url |-> Str(<<"/uploads/">> \o filename),
               files |-> files \cup {filename}]
         ELSE [threw |-> TRUE, url |-> Null, files |-> files]

\* upload.single('photoFile'): multer stores the uploaded file under
\* uuidv4() + extname(originalname) and sets req.file
MulterSingle(req, draw, diskOk, files) ==
    IF req.file = Undefined
    THEN [threw |-> FALSE, file |-> Undefined, files |-> files]
    ELSE LET filename == <<draw.v[1], req.file.ext>> IN
         IF diskOk
         THEN [threw |-> FALSE, file |-> [filename |-> filename], files |-> files \cup {filename}]
         ELSE [threw |-> TRUE, file |-> Undefined, files |-> files]

\* photo ? (photo.startsWith('http') ? photo : base + photo) : null
AbsolutePhoto(photo) ==
    IF ~Truthy(photo) THEN Null
    ELSE IF startsWith(photo.v, Base) THEN photo
    ELSE Str(Base \o photo.v)

----------------------------------------------------------------------------
(* POST /visitors *)

\* the handler, from the request to the response and the new store.
\* idDraw and fileDraw are the results of the uuidv4() calls, diskOk tells
\* whether writing to UPLOADS_DIR succeeds.
CreateVisitor(req, idDraw, fileDraw, diskOk) ==
    LET multipart == startsWith(req.contentType, <<"multipart/">>)
        m == IF multipart THEN MulterSingle(req, fileDraw, diskOk, uploads)
             ELSE [threw |-> FALSE, file |-> Undefined, files |-> uploads]
        b == req.body
        useData == /\ m.file = Undefined
                   /\ b.photo.t = "string"
                   /\ startsWith(b.photo.v, <<"data:", "image">>)
        saved == IF useData THEN saveBase64Image(b.photo, fileDraw, diskOk, m.files)
                 ELSE [threw |-> FALSE, url |-> Null, files |-> m.files]
        photoUrl == IF m.file # Undefined
                    THEN Str(<<"/uploads/">> \o m.file.filename)
                    ELSE saved.url
        id == idDraw
        checkin == IF Truthy(b.checkin_time) THEN parseInt(b.checkin_time)
                   ELSE Num(EpochSeconds)
        v == IF HasBearer(req.auth) THEN jwt_verify(Tail(req.auth.v)) ELSE [ok |-> FALSE]
        created_by == IF v.ok THEN v.decoded.id ELSE Null
        ins == InsertVisitor(visitors,
                   <<id, b.name, Or(b.phone, Str(<<>>)), Or(b.address, Str(<<>>)),
                     Or(b.purpose, Str(<<>>)), Or(b.company, Str(<<>>)),
                     Or(b.personToMeet, Str(<<>>)), Or(photoUrl, Str(<<>>)),
                     checkin, created_by>>)
    IN  IF m.threw
        THEN [status |-> 500, body |-> [error |-> "internal error"],
              table |-> visitors, files |-> m.files]
        ELSE IF ~Truthy(b.name)
        THEN [status |-> 400, body |-> [error |-> "name required"],
              table |-> visitors, files |-> m.files]
        ELSE IF saved.threw
        THEN [status |-> 500, body |-> [error |-> "internal error"],
              table |-> visitors, files |-> saved.files]
        ELSE IF ~ins.ok
        THEN [status |-> 500, body |-> [error |-> "internal error"],
              table |-> visitors, files |-> saved.files]
        ELSE [status |-> 200,
              body |-> [id |-> id, name |-> b.name, phone |-> b.phone,
                        address |-> b.address, purpose |-> b.purpose,
                        company |-> b.company, personToMeet |-> b.personToMeet,
                        photo |-> AbsolutePhoto(photoUrl), checkin_time |-> checkin],
              table |-> ins.table, files |-> saved.files]

CheckIn(req, idDraw, fileDraw, diskOk) ==
    LET r == CreateVisitor(req, idDraw, fileDraw, diskOk) IN
    /\ visitors' = r.table
    /\ uploads' = r.files
    /\ last' = [op |-> "check_in", req |-> req, draw |-> idDraw, now |-> EpochSeconds,
                status |-> r.status, body |-> r.body, pre |-> visitors,
                diskOk |-> diskOk, files |-> uploads]
    /\ UNCHANGED clock
    /\ UNCHANGED <<users, otps, calls, client>>

----------------------------------------------------------------------------
(* POST /visitors/:id/checkout *)

\* the route registered without authMiddleware
CheckoutVisitor_NoAuth(req) ==
    [status |-> 200, body |-> [id |-> req.params.id, checkout_time |-> Num(EpochSeconds)],
     table |-> UpdateCheckout(visitors, Num(EpochSeconds), req.params.id)]

\* the handler behind authMiddleware: the UPDATE, then { id, checkout_time }
CheckoutVisitor(req) ==
    LET a == authMiddleware(req)
        id == req.params.id
        checkout_time == Num(EpochSeconds)
    IN  IF ~a.ok
        THEN [status |-> a.status, body |-> [error |-> a.error], table |-> visitors]
        ELSE [status |-> 200, body |-> [id |-> id, checkout_time |-> checkout_time],
              table |-> UpdateCheckout(visitors, checkout_time, id)]

\* `invoked` is the time at which the caller sent the request
CheckOut(req, invoked) ==
    LET r == CheckoutVisitor(req) IN
    /\ invoked <= EpochSeconds
    /\ visitors' = r.table
    /\ last' = [op |-> "check_out", req |-> req, invoked |-> invoked, now |-> EpochSeconds,
                status |-> r.status, body |-> r.body, pre |-> visitors]
    /\ UNCHANGED <<clock, uploads>>
    /\ UNCHANGED <<users, otps, calls, client>>

----------------------------------------------------------------------------
(* GET /visitors *)

\* the handler behind authMiddleware; `rows` is the result of the SELECT
GetVisitors(req, rows) ==
    LET a == authMiddleware(req) IN
    IF ~a.ok
    THEN [status |-> a.status, body |-> [error |-> a.error]]
    ELSE [status |-> 200,
          body |-> [k \in DOMAIN rows |-> [rows[k] EXCEPT !.photo = AbsolutePhoto(rows[k].photo)]]]

\* the bounds of the query: parseInt(req.query.from || '0', 10) and
\* parseInt(req.query.to || String(Math.floor(Date.now() / 1000)), 10)
QueryFrom(req) == parseInt(Or(req.query.from, Str(<<"0">>)))

QueryTo(req) == parseInt(Or(req.query.to, Str(ToString10(EpochSeconds))))

List(req) ==
    /\ \E rows \in SelectVisitors(visitors, QueryFrom(req), QueryTo(req)) :
          LET r == GetVisitors(req, rows) IN
          last' = [op |-> "list", req |-> req, now |-> EpochSeconds,
                   status |-> r.status, body |-> r.body, pre |-> visitors]
    /\ UNCHANGED <<clock, visitors, uploads>>
    /\ UNCHANGED <<users, otps, calls, client>>

----------------------------------------------------------------------------
(* Date: the calendar of the JavaScript runtime.  A Date is its time value *)
(* in whole seconds since the epoch; tz is the host's time zone, in        *)
(* minutes east of UTC (a zone without daylight saving).                   *)

SecondsPerDay == 24 * 60 * 60

\* the years the calendar is followed over
Years == 1967..1971

InLeapYear(y) == (y % 4 = 0 /\ y % 100 # 0) \/ y % 400 = 0

\* the number of the first day of year y, day 0 being 1970-01-01
DayFromYear(y) ==
    365 * (y - 1970) + ((y - 1969) \div 4) - ((y - 1901) \div 100) + ((y - 1601) \div 400)

\* the days of year y before its month m (0 to 11; 12 gives the whole year)
DaysBeforeMonth(y, m) ==
    <<0, 31, 59, 90, 120, 151, 181, 212, 243, 273, 304, 334, 365>>[m + 1]
        + (IF InLeapYear(y) /\ m >= 2 THEN 1 ELSE 0)

\* MakeDay: the day number of (year, month, date), a month outside 0..11
\* and a date outside the month carrying over
MakeDay(year, month, date) ==
    LET ym == year + (month \div 12)
        mn == month % 12
    IN  DayFromYear(ym) + DaysBeforeMonth(ym, mn) + date - 1

\* the year, month (0 to 11) and day of the month of day number n
FieldsOfDay(n) ==
    LET y == CHOOSE yy \in Years : DayFromYear(yy) <= n /\ n < DayFromYear(yy + 1)
        k == n - DayFromYear(y)
        m == CHOOSE mm \in 0..11 : DaysBeforeMonth(y, mm) <= k /\ k < DaysBeforeMonth(y, mm + 1)
    IN  [year |-> y, month |-> m, date |-> k - DaysBeforeMonth(y, m) + 1]

\* getFullYear(), getMonth(), getDate(): the fields of t in local time
LocalFields(tz, t) == FieldsOfDay((t + tz * 60) \div SecondsPerDay)

\* new Date(year, month, date, hours, minutes, seconds): local time
NewDate(tz, year, month, date, hours, minutes, seconds) ==
    MakeDay(year, month, date) * SecondsPerDay
        + hours * 3600 + minutes * 60 + seconds - tz * 60

\* function pad(n): String(n).padStart(2, '0')
pad(n) == IF Len(ToString10(n)) < 2 THEN <<"0">> \o ToString10(n) ELSE ToString10(n)

\* toISOString().slice(0, 10): the date of t in UTC, as YYYY-MM-DD
ISODate(t) ==
    LET f == FieldsOfDay(t \div SecondsPerDay) IN
    Str(ToString10(f.year) \o <<"-">> \o pad(f.month + 1) \o <<"-">> \o pad(f.date))

\* Math.max(a, b) and Math.min(a, b): NaN when an argument is NaN
MathMax(a, b) == IF a = NaN \/ b = NaN THEN NaN ELSE IF Leq(a, b) THEN b ELSE a

MathMin(a, b) == IF a = NaN \/ b = NaN THEN NaN ELSE IF Leq(a, b) THEN a ELSE b

----------------------------------------------------------------------------
(* GET /reports/daily and GET /reports/monthly *)

\* SELECT COUNT(*) as c FROM visitors WHERE checkin_time BETWEEN ? AND ?
CountBetween(tbl, start, end) ==
    Num(Cardinality({i \in DOMAIN tbl : Between(tbl[i].checkin_time, start, end)}))

\* the days parameter taken as it is parsed
DaysParam_Unclamped(req) == parseInt(Or(req.query.days, Str(<<"7">>)))

\* Math.min(30, Math.max(1, parseInt(req.query.days || '7', 10)))
DaysParam(req) == MathMin(Num(30), MathMax(Num(1), parseInt(Or(req.query.days, Str(<<"7">>)))))

\* Math.min(24, Math.max(1, parseInt(req.query.months || '6', 10)))
MonthsParam(req) == MathMin(Num(24), MathMax(Num(1), parseInt(Or(req.query.months, Str(<<"6">>)))))

\* a window that ends at 24:00:00, the first second of the next day
DayWindow_Overlapping(tz, d) ==
    LET f == LocalFields(tz, d) IN
    [start |-> NewDate(tz, f.year, f.month, f.date, 0, 0, 0),
     end |-> NewDate(tz, f.year, f.month, f.date, 24, 0, 0)]

\* start and end of the local day of d: 00:00:00 and 23:59:59
DayWindow(tz, d) ==
    LET f == LocalFields(tz, d) IN
    [start |-> NewDate(tz, f.year, f.month, f.date, 0, 0, 0),
     end |-> NewDate(tz, f.year, f.month, f.date, 23, 59, 59)]

\* start and end of the local month of d: the first day at 00:00:00 and
\* day 0 of the next month, which is the last day of this one, at 23:59:59
MonthWindow(tz, d) ==
    LET f == LocalFields(tz, d) IN
    [start |-> NewDate(tz, f.year, f.month, 1, 0, 0, 0),
     end |-> NewDate(tz, f.year, f.month + 1, 0, 23, 59, 59)]

\* the label built from getMonth() without the + 1
MonthLabel_ZeroBased(tz, d) ==
    LET f == LocalFields(tz, d) IN
    Str(ToString10(f.year) \o <<"-">> \o pad(f.month))

\* `${d.getFullYear()}-${pad(d.getMonth() + 1)}`
MonthLabel(tz, d) ==
    LET f == LocalFields(tz, d) IN
    Str(ToString10(f.year) \o <<"-">> \o pad(f.month + 1))

\* the loop of /reports/daily: for i = days - 1 down to 0, the day i days
\* before today, its window, the count of the rows inside and the label.
\* No entry when days is NaN: the loop test NaN >= 0 is false.
DailyEntries(req, tz) ==
    LET days == DaysParam(req)
        now == LocalFields(tz, EpochSeconds)
        entry(i) ==
            LET d == NewDate(tz, now.year, now.month, now.date - i, 0, 0, 0)
                w == DayWindow(tz, d)
            IN  [date |-> ISODate(d), count |-> CountBetween(visitors, Num(w.start), Num(w.end))]
    IN  IF days = NaN THEN <<>>
        ELSE [k \in 1..days.v |-> entry(days.v - k)]

\* the loop of /reports/monthly: for i = months - 1 down to 0, the first
\* day of the month i months before this one, its window, count and label
MonthlyEntries(req, tz) ==
    LET months == MonthsParam(req)
        now == LocalFields(tz, EpochSeconds)
        entry(i) ==
            LET d == NewDate(tz, now.year, now.month - i, 1, 0, 0, 0)
                w == MonthWindow(tz, d)
            IN  [month |-> MonthLabel(tz, d),
                 count |-> CountBetween(visitors, Num(w.start), Num(w.end))]
    IN  IF months = NaN THEN <<>>
        ELSE [k \in 1..months.v |-> entry(months.v - k)]

\* a report that clears the table it has counted
DailyCounts_Purging(req, tz) ==
    LET a == authMiddleware(req) IN
    IF ~a.ok
    THEN [status |-> a.status, body |-> [error |-> a.error], table |-> visitors]
    ELSE [status |-> 200, body |-> DailyEntries(req, tz), table |-> <<>>]

\* the handler of /reports/daily behind authMiddleware: the response, and
\* the table after its statements, all of them SELECTs
DailyCounts(req, tz) ==
    LET a == authMiddleware(req) IN
    IF ~a.ok
    THEN [status |-> a.status, body |-> [error |-> a.error], table |-> visitors]
    ELSE [status |-> 200, body |-> DailyEntries(req, tz), table |-> visitors]

\* the handler of /reports/monthly behind authMiddleware
MonthlyCounts(req, tz) ==
    LET a == authMiddleware(req) IN
    IF ~a.ok
    THEN [status |-> a.status, body |-> [error |-> a.error], table |-> visitors]
    ELSE [status |-> 200, body |-> MonthlyEntries(req, tz), table |-> visitors]

Daily(req, tz) ==
    LET r == DailyCounts(req, tz) IN
    /\ visitors' = r.table
    /\ last' = [op |-> "daily", req |-> req, tz |-> tz, now |-> EpochSeconds,
                status |-> r.status, body |-> r.body, pre |-> visitors]
    /\ UNCHANGED <<clock, uploads>>
    /\ UNCHANGED <<users, otps, calls, client>>

Monthly(req, tz) ==
    LET r == MonthlyCounts(req, tz) IN
    /\ visitors' = r.table
    /\ last' = [op |-> "monthly", req |-> req, tz |-> tz, now |-> EpochSeconds,
                status |-> r.status, body |-> r.body, pre |-> visitors]
    /\ UNCHANGED <<clock, uploads>>
    /\ UNCHANGED <<users, otps, calls, client>>

----------------------------------------------------------------------------
(* The client: loadVisitors (App.jsx) *)

\* the constant 10000000000: a number above it is taken for milliseconds
MillisThreshold == Big(1, <<"1", "0", "0", "0", "0", "0", "0", "0", "0", "0", "0">>)

\* Math.floor(x / 1000) of a number that is not negative
FloorDiv1000(x) ==
    IF x.t = "bignumber"
    THEN MakeNumber(1, SubSeq(x.digits, 1, Len(x.digits) - 3))
    ELSE Num(x.v \div 1000)

\* the test `ck >= 10000000000` in place of `ck > 10000000000`
NormalizeCheckinTime_AtThreshold(ck) ==
    LET n == CASE ck.t = "string" -> NaN
               [] IsNumber(ck) /\ Leq(MillisThreshold, ck) -> FloorDiv1000(ck)
               [] OTHER -> ck
    IN  Or(n, Num(0))

\* what the map over the response does to checkin_time: text is parsed as
\* a date (NaN for text that is no date, the only text of this model), a
\* number above the threshold is divided by 1000, and `ck || 0` is kept
NormalizeCheckinTime(ck) ==
    LET n == CASE ck.t = "string" -> NaN
               [] IsNumber(ck) /\ ~Leq(ck, MillisThreshold) -> FloorDiv1000(ck)
               [] OTHER -> ck
    IN  Or(n, Num(0))

\* the client normalizes the checkin_time of a record it received
Normalize ==
    /\ last.op = "received"
    /\ last' = [op |-> "normalized", checkin_time |-> last.checkin_time,
                out |-> NormalizeCheckinTime(last.checkin_time)]
    /\ UNCHANGED <<clock, visitors, uploads>>
    /\ UNCHANGED <<users, otps, calls, client>>

----------------------------------------------------------------------------
(* The client: downloadCSV (App.jsx) *)

\* the keys a record can have, in the order the server writes them
Columns == <<"id", "name", "phone">>

\* Object.keys(r): the keys of the record, in that order
ObjectKeys(r) == SelectSeq(Columns, LAMBDA c : c \in DOMAIN r)

\* (x ?? "").toString(), by characters
ToText(x) ==
    CASE x.t \in {"null", "undefined"} -> <<>>
      [] x.t = "string" -> x.v
      [] IsNumber(x) -> NumberToString(x)
      [] OTHER -> <<x.t>>

\* s.replace(/"/g, '""')
RECURSIVE DoubleQuotes(_)
DoubleQuotes(s) ==
    IF s = <<>> THEN <<>>
    ELSE (IF Head(s) = "\"" THEN <<"\"", "\"">> ELSE <<Head(s)>>) \o DoubleQuotes(Tail(s))

\* parts.join(sep)
RECURSIVE Join(_, _)
Join(parts, sep) ==
    IF parts = <<>> THEN <<>>
    ELSE IF Len(parts) = 1 THEN parts[1]
    ELSE parts[1] \o <<sep>> \o Join(Tail(parts), sep)

\* the text downloadCSV builds for a list that is not empty: the keys of
\* the first record, then one line per record with its values under those
\* keys, quotes doubled, joined by commas; the lines joined by line feeds
downloadCSV(rows) ==
    LET cols == ObjectKeys(rows[1])
        field(r, c) == DoubleQuotes(ToText(IF c \in DOMAIN r THEN r[c] ELSE Undefined))
        line(r) == Join([j \in DOMAIN cols |-> field(r, cols[j])], ",")
    IN  Join(<<Join([j \in DOMAIN cols |-> <<cols[j]>>], ",")>>
                \o [k \in DOMAIN rows |-> line(rows[k])], "\n")

\* the user exports the list the client holds; nothing is built for an
\* empty list
Export ==
    /\ last.op = "listed"
    /\ last' = [op |-> "exported", rows |-> last.rows,
                csv |-> IF last.rows = <<>> THEN <<>> ELSE downloadCSV(last.rows)]
    /\ UNCHANGED <<clock, visitors, uploads>>
    /\ UNCHANGED <<users, otps, calls, client>>

----------------------------------------------------------------------------
(* The client's registration form: CheckInAndList of src/App.jsx *)

\* the most loadVisitors calls that nobody awaits (the one of the mount
\* effect, the ones of the vms:visitors-changed listener) at a time
MaxLoads == 2

\* String.prototype.trim: white space off both ends
RECURSIVE trim(_)
trim(s) ==
    IF s = <<>> THEN <<>>
    ELSE IF Head(s) = " " THEN trim(Tail(s))
    ELSE IF s[Len(s)] = " " THEN trim(SubSeq(s, 1, Len(s) - 1))
    ELSE s

\* the form of useState, and the one submitCheckin and Reset put back
\* (checkin_time, which both set to the current minute, is left out)
EmptyForm == [name |-> <<>>, phone |-> <<>>, company |-> <<>>]

\* the component after its first render and its mount effect, which calls
\* loadVisitors: step, form, photo, loading are the useState cells (msg
\* and the toasts, which are shown and never read, are left out);
\* reading is a FileReader at work; loads counts the loadVisitors calls
\* nobody awaits; submits are the submitCheckin calls at an await; posted
\* are the bodies given to POST /visitors; event tells whether the handler
\* run last was the click on "Confirm & Check In" or the end of a submit
\* that succeeded
InitialClient ==
    [step |-> 1, form |-> EmptyForm, photo |-> Null,
     loading |-> TRUE, reading |-> FALSE, loads |-> 1,
     submits |-> <<>>, posted |-> {}, event |-> "other"]

\* an input of step 1 changes: updateForm(key, value)
updateForm(key, value) ==
    /\ client.step = 1
    /\ client' = [client EXCEPT !.form = [client.form EXCEPT ![key] = value],
                                !.event = "other"]
    /\ UNCHANGED <<clock, visitors, uploads, last, users, otps, calls>>

\* the Reset button of step 1
ResetForm ==
    /\ client.step = 1
    /\ client' = [client EXCEPT !.form = EmptyForm, !.event = "other"]
    /\ UNCHANGED <<clock, visitors, uploads, last, users, otps, calls>>

nextFromDetails_NameOnly ==
    /\ client.step = 1
    /\ client' =
         IF trim(client.form.name) = <<>>
         THEN [client EXCEPT !.event = "other"]
         ELSE [client EXCEPT !.step = 2, !.event = "other"]
    /\ UNCHANGED <<clock, visitors, uploads, last, users, otps, calls>>

\* the button "Next: Photo" of step 1
nextFromDetails ==
    /\ client.step = 1
    /\ client' =
         IF \/ client.form.name = <<>> \/ trim(client.form.name) = <<>>
            \/ client.form.phone = <<>> \/ trim(client.form.phone) = <<>>
         THEN [client EXCEPT !.event = "other"]
         ELSE [client EXCEPT !.step = 2, !.event = "other"]
    /\ UNCHANGED <<clock, visitors, uploads, last, users, otps, calls>>

\* the button Back of step 2
backToDetails ==
    /\ client.step = 2
    /\ client' = [client EXCEPT !.step = 1, !.event = "other"]
    /\ UNCHANGED <<clock, visitors, uploads, last, users, otps, calls>>

\* Capture of step 2 with the camera open: the screenshot, when there is
\* one, becomes the photo
capture(shot) ==
    /\ client.step = 2
    /\ client' = [client EXCEPT !.photo = IF Truthy(shot) THEN shot ELSE @,
                                !.event = "other"]
    /\ UNCHANGED <<clock, visitors, uploads, last, users, otps, calls>>

\* Skip and Clear of step 2
ClearPhoto ==
    /\ client.step = 2
    /\ client' = [client EXCEPT !.photo = Null, !.event = "other"]
    /\ UNCHANGED <<clock, visitors, uploads, last, users, otps, calls>>

\* a file is chosen at step 2: a FileReader starts on it
onUpload ==
    /\ client.step = 2
    /\ client' = [client EXCEPT !.reading = TRUE, !.event = "other"]
    /\ UNCHANGED <<clock, visitors, uploads, last, users, otps, calls>>

\* the FileReader is done, at whatever step the form is by then
ReaderLoaded(result) ==
    /\ client.reading
    /\ client' = [client EXCEPT !.reading = FALSE, !.photo = result,
                                !.event = "other"]
    /\ UNCHANGED <<clock, visitors, uploads, last, users, otps, calls>>

\* the button "Next: Confirm" of step 2
NextToConfirm ==
    /\ client.step = 2
    /\ client' = [client EXCEPT !.step = 3, !.event = "other"]
    /\ UNCHANGED <<clock, visitors, uploads, last, users, otps, calls>>

\* the button Back of step 3
BackToPhoto ==
    /\ client.step = 3
    /\ client' = [client EXCEPT !.step = 2, !.event = "other"]
    /\ UNCHANGED <<clock, visitors, uploads, last, users, otps, calls>>

\* the body submitCheckin builds from the form
Payload(c) ==
    [name |-> c.form.name, phone |-> c.form.phone, company |-> c.form.company,
     photo |-> Or(c.photo, Null)]

\* a loadVisitors call that nobody awaits is over: its finally clears loading
LoadReturns ==
    /\ client.loads > 0
    /\ client' = [client EXCEPT !.loads = @ - 1, !.loading = FALSE,
                                !.event = "other"]
    /\ UNCHANGED <<clock, visitors, uploads, last, users, otps, calls>>

\* the button "Confirm & Check In" of step 3, disabled while loading:
\* submitCheckin up to its first await, which is the POST, or, when a
\* field is missing, the loadVisitors of its catch block
submitCheckin ==
    /\ client.step = 3
    /\ ~client.loading
    /\ client.loads + Len(client.submits) < MaxLoads
    /\ LET payload == Payload(client) IN
       IF payload.name = <<>> \/ payload.phone = <<>>
       THEN client' = [client EXCEPT
                !.loading = TRUE,
                !.submits = Append(@, [at |-> "recover", payload |-> payload]),
                !.event = "submitCheckin"]
       ELSE client' = [client EXCEPT
                !.loading = TRUE,
                !.posted = @ \cup {payload},
                !.submits = Append(@, [at |-> "post", payload |-> payload]),
                !.event = "submitCheckin"]
    /\ UNCHANGED <<clock, visitors, uploads, last, users, otps, calls>>

\* the sequence without its i-th element
Without(seq, i) == SubSeq(seq, 1, i - 1) \o SubSeq(seq, i + 1, Len(seq))

\* the POST of the i-th submitCheckin call answers: on success the call
\* goes on to await loadVisitors, on failure to the loadVisitors of its
\* catch block; either way loadVisitors sets loading
PostReturns(i, ok) ==
    /\ i \in 1..Len(client.submits)
    /\ client.submits[i].at = "post"
    /\ client' = [client EXCEPT
           !.loading = TRUE,
           !.submits[i].at = IF ok THEN "reload" ELSE "recover",
           !.event = "other"]
    /\ UNCHANGED <<clock, visitors, uploads, last, users, otps, calls>>

\* the loadVisitors the i-th submitCheckin call awaits is over.  After a
\* successful POST and reload the form, the photo and the step are reset,
\* vms:visitors-changed is dispatched, whose listener starts a loadVisitors
\* (loading set), and the finally block clears loading.  A failed reload
\* takes the call to its catch block, which reloads once more.
ReloadReturns(i, ok) ==
    /\ i \in 1..Len(client.submits)
    /\ client.submits[i].at \in {"reload", "recover"}
    /\ client' =
         IF client.submits[i].at = "reload" /\ ok
         THEN [client EXCEPT
                 !.form = EmptyForm, !.photo = Null, !.step = 1,
                 !.loads = @ + 1, !.loading = FALSE,
                 !.submits = Without(@, i), !.event = "checkedIn"]
         ELSE IF client.submits[i].at = "reload"
         THEN [client EXCEPT
                 !.loading = TRUE,
                 !.submits[i].at = "recover", !.event = "other"]
         ELSE [client EXCEPT
                 !.loading = FALSE,
                 !.submits = Without(@, i), !.event = "other"]
    /\ UNCHANGED <<clock, visitors, uploads, last, users, otps, calls>>

----------------------------------------------------------------------------
(* Handlers that overlap.  A handler runs from one await to the next in one
   step; the statement it awaits is executed by the database at a step of
   its own, in whatever order the database takes the statements up (db.js
   opens the database in sqlite3's default, parallel mode).  calls[c] is the
   c-th call: the await it is at, its request, its local variables and, once
   it is done, its response. *)

\* the most calls in flight or finished
MaxCalls == 3

CallIds == 1..MaxCalls

NoCalls == [c \in CallIds |-> [at |-> "idle", op |-> "none"]]

\* the next unused call
IsFree(c) ==
    /\ c \in CallIds
    /\ calls[c].at = "idle"
    /\ \A d \in CallIds : d < c => calls[d].at # "idle"

\* the handler of `route` starts on req and reaches the await `at`
Await(c, route, req, at, locals) ==
    [calls EXCEPT ![c] = [at |-> at, op |-> route, req |-> req, vars |-> locals,
                          status |-> 0, body |-> Null]]

\* the call runs on to the await `at`
Proceed(c, at, locals) == [calls EXCEPT ![c].at = at, ![c].vars = locals]

\* res.status(status).json(body)
Respond(c, status, body) ==
    [calls EXCEPT ![c].at = "done", ![c].status = status, ![c].body = body]

\* a handler that answers before its first await
Answer(c, route, req, status, body) ==
    [calls EXCEPT ![c] = [at |-> "done", op |-> route, req |-> req, vars |-> [none |-> TRUE],
                          status |-> status, body |-> body]]

\* the statement of call c executed last
Executed(c) == [op |-> "executed", call |-> c, route |-> calls[c].op, at |-> calls[c].at]

\* POST /visitors/:id/checkout up to its await: authMiddleware, the time
\* taken, the UPDATE handed to the database
CheckoutBegins(c, req) ==
    LET a == authMiddleware(req) IN
    /\ IsFree(c)
    /\ calls' = IF ~a.ok
                THEN Answer(c, "checkout", req, a.status, [error |-> a.error])
                ELSE Await(c, "checkout", req, "update",
                           [id |-> req.params.id, checkout_time |-> Num(EpochSeconds)])
    /\ UNCHANGED <<clock, visitors, uploads, last, users, otps, client>>

\* the UPDATE of a check_out executes and the handler answers { id, checkout_time }
CheckoutUpdates(c) ==
    /\ c \in CallIds
    /\ calls[c].op = "checkout" /\ calls[c].at = "update"
    /\ visitors' = UpdateCheckout(visitors, calls[c].vars.checkout_time, calls[c].vars.id)
    /\ calls' = Respond(c, 200, calls[c].vars)
    /\ last' = Executed(c)
    /\ UNCHANGED <<clock, uploads, users, otps, client>>

\* process.env.OTP_TTL_SECONDS, here 0: a code is good for the second it
\* was issued in
OTP_TTL_SECONDS == 0

\* Math.floor(100000 + Math.random() * 900000).toString()
OtpCodes == {Str(NatToString(n)) : n \in {100000, 999999}}

\* otps: id PRIMARY KEY, the other columns NOT NULL
OtpConstraintsOk(tbl, row) ==
    /\ \A i \in DOMAIN tbl : tbl[i].id # row.id
    /\ row.phone # Null /\ row.otp # Null
    /\ row.expires_at # Null /\ row.created_at # Null

\* users: id PRIMARY KEY, no UNIQUE on username
UserConstraintsOk_NoUnique(tbl, row) ==
    /\ \A u \in tbl : u.id # row.id
    /\ row.username # Null /\ row.password_hash # Null /\ row.created_at # Null

\* users: id PRIMARY KEY, username UNIQUE NOT NULL, the rest NOT NULL
UserConstraintsOk(tbl, row) ==
    /\ \A u \in tbl : u.id # row.id
    /\ \A u \in tbl : u.username # row.username
    /\ row.username # Null /\ row.password_hash # Null /\ row.created_at # Null

\* SELECT ... FROM users WHERE username = ?: the rows found
SelectUser(tbl, username) == {u \in tbl : u.username = Bind(username)}

\* SELECT ... FROM otps WHERE phone = ? ORDER BY created_at DESC LIMIT 1:
\* the rows it can return, more than one when the newest rows of the phone
\* were created in the same millisecond
SelectLatestOtp(tbl, phone) ==
    {i \in DOMAIN tbl :
        /\ tbl[i].phone = Bind(phone)
        /\ \A j \in DOMAIN tbl :
              tbl[j].phone = Bind(phone) => tbl[j].created_at.v <= tbl[i].created_at.v}

\* UPDATE otps SET used = 1 WHERE id = ?
MarkUsed(tbl, id) ==
    [i \in DOMAIN tbl |-> IF tbl[i].id = id THEN [tbl[i] EXCEPT !.used = Num(1)] ELSE tbl[i]]

\* POST /auth/send-otp up to its await: the code, the id and the times
\* drawn, the INSERT handed to the database.  created_at is the ISO text of
\* the time, kept as the millisecond it denotes: both order the same way.
SendOtpBegins(c, req, otp, id) ==
    /\ IsFree(c)
    /\ calls' = IF ~Truthy(req.body.phone)
                THEN Answer(c, "send-otp", req, 400, [error |-> "phone required"])
                ELSE Await(c, "send-otp", req, "insert",
                           [id |-> id, phone |-> req.body.phone, otp |-> otp,
                            expires_at |-> Num(EpochSeconds + OTP_TTL_SECONDS),
                            used |-> Num(0), created_at |-> Num(clock)])
    /\ UNCHANGED <<clock, visitors, uploads, last, users, otps, client>>

\* the INSERT of a send-otp executes and the handler answers with the code
SendOtpInserts(c) ==
    /\ c \in CallIds
    /\ calls[c].op = "send-otp" /\ calls[c].at = "insert"
    /\ IF OtpConstraintsOk(otps, calls[c].vars)
       THEN /\ otps' = Append(otps, calls[c].vars)
            /\ calls' = Respond(c, 200, [message |-> "OTP generated (DEV)", otp |-> calls[c].vars.otp,
                                         expires_at |-> calls[c].vars.expires_at])
       ELSE /\ otps' = otps
            /\ calls' = Respond(c, 500, [error |-> "internal error"])
    /\ last' = Executed(c)
    /\ UNCHANGED <<clock, visitors, uploads, users, client>>

\* String(otp)
StringOf(x) == IF x.t = "string" THEN x ELSE Str(NumberToString(x))

\* POST /auth/verify-otp up to its first await: the time taken, the SELECT
\* of the phone's newest code handed to the database
VerifyOtpBegins(c, req) ==
    /\ IsFree(c)
    /\ calls' = IF ~Truthy(req.body.phone) \/ ~Truthy(req.body.otp)
                THEN Answer(c, "verify-otp", req, 400, [error |-> "phone & otp required"])
                ELSE Await(c, "verify-otp", req, "select", [now |-> EpochSeconds])
    /\ UNCHANGED <<clock, visitors, uploads, last, users, otps, client>>

\* the SELECT executes; the handler tests the row and hands the UPDATE to
\* the database
VerifyOtpSelects(c) ==
    /\ c \in CallIds
    /\ calls[c].op = "verify-otp" /\ calls[c].at = "select"
    /\ LET found == SelectLatestOtp(otps, calls[c].req.body.phone) IN
       IF found = {}
       THEN calls' = Respond(c, 400, [error |-> "no otp found"])
       ELSE \E i \in found :
              LET row == otps[i] IN
              calls' =
                IF Truthy(row.used) THEN Respond(c, 400, [error |-> "otp already used"])
                ELSE IF calls[c].vars.now > row.expires_at.v
                THEN Respond(c, 400, [error |-> "otp expired"])
                ELSE IF row.otp # StringOf(calls[c].req.body.otp)
                THEN Respond(c, 400, [error |-> "invalid otp"])
                ELSE Proceed(c, "update", [now |-> calls[c].vars.now, row |-> row.id])
    /\ last' = Executed(c)
    /\ UNCHANGED <<clock, visitors, uploads, users, otps, client>>

\* the UPDATE executes; the handler hands the SELECT of the user to the
\* database
VerifyOtpUpdates(c) ==
    /\ c \in CallIds
    /\ calls[c].op = "verify-otp" /\ calls[c].at = "update"
    /\ otps' = MarkUsed(otps, calls[c].vars.row)
    /\ calls' = Proceed(c, "user", calls[c].vars)
    /\ last' = Executed(c)
    /\ UNCHANGED <<clock, visitors, uploads, users, client>>

\* the SELECT of the user executes; the handler answers with the user it
\* found or draws an id and hands the INSERT of a new user to the database
\* (created_at is the ISO text of the time, kept as its millisecond)
VerifyOtpFindsUser(c) ==
    /\ c \in CallIds
    /\ calls[c].op = "verify-otp" /\ calls[c].at = "user"
    /\ LET found == SelectUser(users, calls[c].req.body.phone) IN
       IF found # {}
       THEN \E user \in found :
              calls' = Respond(c, 200, [id |-> user.id, username |-> user.username,
                                        token |-> signToken([id |-> user.id])])
       ELSE \E id \in UUIDs :
              calls' = Proceed(c, "insert",
                          [now |-> calls[c].vars.now, row |-> calls[c].vars.row,
                           user |-> [id |-> id, username |-> calls[c].req.body.phone,
                                     password_hash |-> Str(<<>>),
                                     created_at |-> Num(clock)]])
    /\ last' = Executed(c)
    /\ UNCHANGED <<clock, visitors, uploads, users, otps, client>>

\* the INSERT of a user executes and the handler answers { id, username,
\* token }, or 500 when the database rejects the row; register and
\* verify-otp end alike
UserInserts(c) ==
    /\ c \in CallIds
    /\ calls[c].op \in {"register", "verify-otp"} /\ calls[c].at = "insert"
    /\ LET user == calls[c].vars.user IN
       IF UserConstraintsOk(users, user)
       THEN /\ users' = users \cup {user}
            /\ calls' = Respond(c, 200, [id |-> user.id, username |-> user.username,
                                         token |-> signToken([id |-> user.id])])
       ELSE /\ users' = users
            /\ calls' = Respond(c, 500, [error |-> "internal error"])
    /\ last' = Executed(c)
    /\ UNCHANGED <<clock, visitors, uploads, otps, client>>

\* POST /auth/register up to its first await: the SELECT of the username
\* handed to the database
RegisterBegins(c, req) ==
    /\ IsFree(c)
    /\ calls' = IF ~Truthy(req.body.username) \/ ~Truthy(req.body.password)
                THEN Answer(c, "register", req, 400,
                            [error |-> "username & password required"])
                ELSE Await(c, "register", req, "select", [none |-> TRUE])
    /\ UNCHANGED <<clock, visitors, uploads, last, users, otps, client>>

\* the SELECT executes; the handler refuses a name that is taken or goes on
\* to bcrypt.hash
RegisterSelects(c) ==
    /\ c \in CallIds
    /\ calls[c].op = "register" /\ calls[c].at = "select"
    /\ calls' = IF SelectUser(users, calls[c].req.body.username) # {}
                THEN Respond(c, 400, [error |-> "username already exists"])
                ELSE Proceed(c, "hash", calls[c].vars)
    /\ last' = Executed(c)
    /\ UNCHANGED <<clock, visitors, uploads, users, otps, client>>

\* bcrypt.hash is done; the handler draws the id, takes the time and hands
\* the INSERT to the database
RegisterHashed(c, id) ==
    /\ c \in CallIds
    /\ calls[c].op = "register" /\ calls[c].at = "hash"
    /\ calls' = Proceed(c, "insert",
                    [user |-> [id |-> id, username |-> calls[c].req.body.username,
                               password_hash |-> Str(<<"bcrypt:">> \o calls[c].req.body.password.v),
                               created_at |-> Num(clock)]])
    /\ UNCHANGED <<clock, visitors, uploads, last, users, otps, client>>

----------------------------------------------------------------------------
(* Time *)

\* half a second passes
Tick ==
    /\ clock + 500 <= MaxSec * 1000
    /\ clock' = clock + 500
    /\ UNCHANGED <<visitors, uploads, last>>
    /\ UNCHANGED <<users, otps, calls, client>>

----------------------------------------------------------------------------
(* The callers: the requests the handlers are driven with *)

Fill(c, k) == [i \in 1..k |-> c]

\* field contents: plain, with a comma, with a double quote, with a line
\* break, and null
FieldInputs ==
    {Str(<<"a">>), Str(<<"a", ",", "b">>), Str(<<"\"", "a", "\"">>),
     Str(<<"a", "\n", "b">>), Null}

\* the lists the client exports: none, one record, and two records the
\* second of which has the keys of the first, fewer, or more
ExportInputs ==
    {<<>>}
        \cup {<<[id |-> Str(<<"1">>), name |-> n, phone |-> ph]>> :
                 n \in FieldInputs, ph \in FieldInputs}
        \cup {<<[id |-> Str(<<"1">>), name |-> n], r>> :
                 n \in FieldInputs,
                 r \in {[id |-> Str(<<"2">>), name |-> m] : m \in FieldInputs}
                        \cup {[id |-> Str(<<"2">>)],
                              [id |-> Str(<<"2">>), name |-> Str(<<"b">>),
                               phone |-> Str(<<"5">>)]}}

AuthInputs ==
    {Undefined, Str(<<"Basic ", "abc">>), Str(<<"Bearer ", "forged">>)}
        \cup {Str(<<"Bearer ">> \o signToken([id |-> u])) : u \in UserIds}

ValidAuth == Str(<<"Bearer ">> \o signToken([id |-> CHOOSE u \in UserIds : TRUE]))

JsonRequest(name, checkin_time, auth, text, photo) ==
    [contentType |-> <<"application/json">>, auth |-> auth, file |-> Undefined,
     body |-> [name |-> name, phone |-> text, address |-> text, purpose |-> text,
               company |-> text, personToMeet |-> text, photo |-> photo,
               checkin_time |-> checkin_time]]

\* a visitor at the kiosk: a name and nothing else
PlainCheckIn == JsonRequest(Str(<<"A", "l">>), Undefined, Undefined, Undefined, Undefined)

\* a receptionist who is logged in: the text fields filled in, no photo
ReceptionCheckIn ==
    JsonRequest(Str(<<"A", "l">>), Undefined, ValidAuth, Str(<<"5">>), Undefined)

\* a multipart request with a file in the field photoFile
MultipartRequest(name) ==
    [contentType |-> <<"multipart/", "form-data">>, auth |-> Undefined,
     file |-> [ext |-> ".jpg"],
     body |-> [name |-> name, phone |-> Undefined, address |-> Undefined,
               purpose |-> Undefined, company |-> Undefined, personToMeet |-> Undefined,
               photo |-> Undefined, checkin_time |-> Undefined]]

\* the check-ins that carry a photo of some kind: a receptionist who is
\* logged in, with the text fields filled in and an inline image; an inline
\* image the pattern of saveBase64Image rejects (no data after the comma);
\* an upload; an upload with the name left out
PhotoCheckIns ==
    {JsonRequest(Str(<<"A", "l">>), Undefined, ValidAuth, Str(<<"5">>),
                 Str(<<"data:", "image", "/", "png", ";base64,", "iVBOR">>)),
     JsonRequest(Str(<<"A", "l">>), Undefined, Undefined, Undefined,
                 Str(<<"data:", "image", "/", "png", ";base64,">>)),
     MultipartRequest(Str(<<"A", "l">>)),
     MultipartRequest(Undefined)}

\* a client that sends its own check-in time, one that lies in the past
BackdatedCheckIn == JsonRequest(Str(<<"A", "l">>), Num(1), Undefined, Undefined, Undefined)

\* a client that sends its own check-in time, one that lies in the future
PostdatedCheckIn == JsonRequest(Str(<<"A", "l">>), Str(<<"9">>), Undefined, Undefined, Undefined)

\* every name, and with a proper name every check-in time: absent, the
\* numbers 0 and 1 (a time before StartSec), the strings "9" (a time after
\* MaxSec) and "x", and a client's Date.now(), 1,700,000,000,000
\* milliseconds
CheckInRequests ==
    {JsonRequest(n, Undefined, Undefined, Undefined, Undefined) :
        n \in {Undefined, Str(<<>>), Str(<<" ">>), Str(<<"A", "l">>)}}
        \cup {JsonRequest(Str(<<"A", "l">>), c, Undefined, Undefined, Undefined) :
                 c \in {Undefined, Num(0), Num(1), Str(<<"9">>), Str(<<"x">>),
                        Big(1, <<"1", "7">> \o Fill("0", 11))}}

\* the uuidv4() draws a request consumes for its photo: none without one
FileDraws(req) ==
    IF req.file # Undefined \/ Truthy(req.body.photo) THEN UUIDs ELSE {Undefined}

UnknownId == Str(<<"nobody">>)

CheckOutRequests ==
    {[params |-> [id |-> i], auth |-> a] : i \in UUIDs \cup {UnknownId}, a \in AuthInputs}

PlainCheckOuts == {[params |-> [id |-> i], auth |-> ValidAuth] : i \in UUIDs}

\* check-outs of one visitor, by a receptionist who is logged in and by a
\* stranger
RacingCheckOuts ==
    {[params |-> [id |-> CHOOSE i \in UUIDs : TRUE], auth |-> a] : a \in {ValidAuth, Undefined}}

ListRequests ==
    {[query |-> [from |-> f, to |-> t], auth |-> ValidAuth] :
        f \in {Undefined, Str(ToString10(StartSec + 1)), Str(<<"x">>)},
        t \in {Undefined, Str(ToString10(StartSec)), Str(<<"9">>)}}
        \cup {[query |-> [from |-> Undefined, to |-> Undefined], auth |-> a] : a \in AuthInputs}

PlainList == [query |-> [from |-> Undefined, to |-> Undefined], auth |-> ValidAuth]

\* a read operation, asked for with credentials of every kind
Credentialed(query) == {[query |-> query, auth |-> a] : a \in AuthInputs}

\* the time zones of the host: UTC-05:00 and UTC+05:30
TimeZones == {-300, 330}

\* the time at which the reports are asked for: 1970-01-13 02:00:00 UTC,
\* the evening of the 12th in the first zone, the morning of the 13th in
\* the second
ReportNow == (12 * 24 + 2) * 3600

\* the check-in times of the visitors the reports count, as clients sent
\* them: the time of the call (none sent), a day before ReportNow, midnight
\* of the 13th in the second zone, and midnight of the 1st of January 1970
\* in the second zone, more than 12 days before ReportNow
ReportCheckIns ==
    {JsonRequest(Str(<<"A", "l">>), c, Undefined, Undefined, Undefined) :
        c \in {Undefined, Num(ReportNow - SecondsPerDay), Num(ReportNow - 27000),
               Num(0 - 19800)}}

\* a window size that is no number
UnparsableSize == Str(<<"x">>)

\* the reports asked for by a receptionist who is logged in, with the
\* window sizes given
DailyRequests(sizes) == {[query |-> [days |-> n], auth |-> ValidAuth] : n \in sizes}

MonthlyRequests(sizes) == {[query |-> [months |-> n], auth |-> ValidAuth] : n \in sizes}

\* integers as the text of a query
Sizes(ks) == {Str(ToString10(k)) : k \in ks}

\* window sizes below, at and above the ends of the ranges the handlers keep
DaysInputs == {-3, 0, 1, 2, 30, 31}

MonthsInputs == {-3, 0, 1, 2, 24, 25}

\* what a visitor types into an input of the form
TextInputs == {<<>>, <<" ">>, <<"A">>}

\* the data URL of a screenshot or of a file read
Snapshot == Str(<<"data:", "image", "/", "jpeg", ";base64,", "9j">>)

\* the phone numbers, which are the user names of those who log in by code
Phones == {Str(<<"5550100">>)}

SendOtpRequests == {[body |-> [phone |-> p]] : p \in Phones \cup {Undefined}}

\* the code as text, as a number, and left out
VerifyOtpRequests ==
    {[body |-> [phone |-> p, otp |-> o]] :
        p \in Phones, o \in OtpCodes \cup {Undefined, Num(100000)}}

RegisterRequests ==
    {[body |-> [username |-> u, password |-> w]] :
        u \in Phones \cup {Undefined}, w \in {Str(<<"pw">>)}}

\* the numeric timestamps a response can carry: 0, NaN, and the numbers
\* written as a leading 1 or 9, a run of 0s or of 9s, and nothing or a
\* last group of three digits
TimestampInputs ==
    {Num(0), NaN}
        \cup {MakeNumber(1, <<h>> \o Fill(f, k) \o g) :
                 h \in {"1", "9"}, f \in {"0", "9"}, k \in 0..MaxFill,
                 g \in {<<>>, <<"0", "0", "0">>, <<"0", "0", "1">>, <<"9", "9", "9">>}}

----------------------------------------------------------------------------
(* The system *)

\* the server just started, its tables empty, at time ms; `lasts` are the
\* inputs a client function is applied to, where there is one
InitWith(ms, lasts) ==
    /\ clock = ms
    /\ visitors = <<>>
    /\ uploads = {}
    /\ last \in lasts
    /\ users = {}
    /\ otps = <<>>
    /\ calls = NoCalls
    /\ client = InitialClient

Init == InitWith(StartSec * 1000 + 500, {[op |-> "none"]})

CheckInFrom(requests) ==
    \E req \in requests, idDraw \in UUIDs :
        \E fileDraw \in FileDraws(req) : CheckIn(req, idDraw, fileDraw, TRUE)

CheckOutFrom(requests) ==
    \E req \in requests, invoked \in StartSec..MaxSec : CheckOut(req, invoked)

ListFrom(requests) == \E req \in requests : List(req)

DailyFrom(requests, zones) == \E req \in requests, tz \in zones : Daily(req, tz)

MonthlyFrom(requests, zones) == \E req \in requests, tz \in zones : Monthly(req, tz)

\* check-ins with the uploads directory writable or not
CheckInStoring(requests) ==
    \E req \in requests, idDraw \in UUIDs :
        \E fileDraw \in FileDraws(req) :
            \E diskOk \in (IF fileDraw = Undefined THEN {TRUE} ELSE BOOLEAN) :
                CheckIn(req, idDraw, fileDraw, diskOk)

\* all the operations, driven by the everyday requests
Spec ==
    Init /\ [][\/ CheckInFrom({PlainCheckIn, BackdatedCheckIn})
               \/ CheckOutFrom(PlainCheckOuts)
               \/ ListFrom({PlainList})
               \/ Tick]_vars

\* check-ins of every kind
SpecCheckIn == Init /\ [][CheckInFrom(CheckInRequests) \/ Tick]_vars

\* check-outs of every kind, of visitors checked in the everyday way
SpecCheckOut ==
    Init /\ [][\/ CheckInFrom({PlainCheckIn})
               \/ CheckOutFrom(CheckOutRequests)
               \/ Tick]_vars

\* listings of every kind, of visitors with check-in times of every kind
SpecList ==
    Init /\ [][\/ CheckInFrom({PlainCheckIn, BackdatedCheckIn, PostdatedCheckIn})
               \/ ListFrom(ListRequests)
               \/ Tick]_vars

\* the reports, of visitors checked in around the ends of days and months,
\* asked for with no window size and with 2
SpecReports ==
    InitWith(ReportNow * 1000, {[op |-> "none"]})
        /\ [][\/ CheckInFrom(ReportCheckIns)
              \/ DailyFrom(DailyRequests({Undefined, Str(<<"2">>)}), TimeZones)
              \/ MonthlyFrom(MonthlyRequests({Undefined, Str(<<"2">>)}), TimeZones)]_vars

\* the reports asked for with window sizes of every kind
SpecSized ==
    InitWith(ReportNow * 1000, {[op |-> "none"]})
        /\ [][\/ CheckInFrom({PlainCheckIn})
              \/ DailyFrom(DailyRequests(Sizes(DaysInputs)), TimeZones)
              \/ MonthlyFrom(MonthlyRequests(Sizes(MonthsInputs)), TimeZones)]_vars

\* every operation, with credentials of every kind, on a host east of UTC
SpecAuth ==
    Init /\ [][\/ CheckInFrom({PlainCheckIn})
               \/ CheckOutFrom(CheckOutRequests)
               \/ ListFrom(Credentialed([from |-> Undefined, to |-> Undefined]))
               \/ DailyFrom(Credentialed([days |-> Undefined]), {330})
               \/ MonthlyFrom(Credentialed([months |-> Undefined]), {330})
               \/ Tick]_vars

\* check-outs of visitors with their fields empty and filled in
SpecFrame ==
    Init /\ [][\/ CheckInFrom({PlainCheckIn, ReceptionCheckIn})
               \/ CheckOutFrom(PlainCheckOuts)
               \/ ListFrom({PlainList})
               \/ Tick]_vars

\* the reports asked for with window sizes that are numbers or not: none,
\* integers, and text
SpecAnySize ==
    InitWith(ReportNow * 1000, {[op |-> "none"]})
        /\ [][\/ CheckInFrom({PlainCheckIn})
              \/ DailyFrom(DailyRequests({Undefined, UnparsableSize} \cup Sizes({-3, 0, 31})),
                           TimeZones)
              \/ MonthlyFrom(MonthlyRequests({Undefined, UnparsableSize}
                                                 \cup Sizes({-3, 0, 25})),
                             TimeZones)]_vars

\* check-ins with photos, with the uploads directory writable or not
SpecPhoto == Init /\ [][CheckInStoring(PhotoCheckIns)]_vars

\* the client's export, applied to lists of every kind
SpecExport ==
    InitWith(StartSec * 1000 + 500, {[op |-> "listed", rows |-> rows] : rows \in ExportInputs})
        /\ [][Export]_vars

\* the client's normalization, applied to timestamps of every size
SpecNormalize ==
    InitWith(StartSec * 1000 + 500,
             {[op |-> "received", checkin_time |-> t] : t \in TimestampInputs})
        /\ [][Normalize]_vars

\* the registration form in the hands of a visitor; getScreenshot() gives
\* nothing or a data URL, a FileReader always ends with a data URL
SpecForm ==
    Init /\ [][\/ \E key \in {"name", "phone"}, value \in TextInputs : updateForm(key, value)
               \/ \E value \in {<<>>, <<"A">>} : updateForm("company", value)
               \/ ResetForm \/ nextFromDetails \/ backToDetails
               \/ \E shot \in {Undefined, Snapshot} : capture(shot)
               \/ ClearPhoto \/ onUpload \/ ReaderLoaded(Snapshot)
               \/ NextToConfirm \/ BackToPhoto
               \/ submitCheckin
               \/ \E i \in 1..MaxLoads, ok \in BOOLEAN : PostReturns(i, ok)
               \/ \E i \in 1..MaxLoads, ok \in BOOLEAN : ReloadReturns(i, ok)
               \/ LoadReturns]_vars

\* check-outs that overlap
SpecRace ==
    Init /\ [][\/ CheckInFrom({PlainCheckIn})
               \/ \E c \in CallIds, req \in RacingCheckOuts : CheckoutBegins(c, req)
               \/ \E c \in CallIds : CheckoutUpdates(c)
               \/ Tick]_vars

\* logging in by code: requests of every kind, overlapping
SpecOtp ==
    Init /\ [][\/ \E c \in CallIds, req \in SendOtpRequests, otp \in OtpCodes, id \in UUIDs :
                     SendOtpBegins(c, req, otp, id)
               \/ \E c \in CallIds : SendOtpInserts(c)
               \/ \E c \in CallIds, req \in VerifyOtpRequests : VerifyOtpBegins(c, req)
               \/ \E c \in CallIds : VerifyOtpSelects(c)
               \/ \E c \in CallIds : VerifyOtpUpdates(c)
               \/ \E c \in CallIds : VerifyOtpFindsUser(c)
               \/ \E c \in CallIds : UserInserts(c)
               \/ Tick]_vars

\* a phone's owner asking for a code, sending a code back and registering
\* the number as a user name, overlapping
SpecUsers ==
    Init /\ [][\/ \E c \in CallIds, p \in Phones, id \in UUIDs :
                     SendOtpBegins(c, [body |-> [phone |-> p]],
                                   CHOOSE otp \in OtpCodes : TRUE, id)
               \/ \E c \in CallIds : SendOtpInserts(c)
               \/ \E c \in CallIds, p \in Phones, otp \in OtpCodes :
                     VerifyOtpBegins(c, [body |-> [phone |-> p, otp |-> otp]])
               \/ \E c \in CallIds : VerifyOtpSelects(c)
               \/ \E c \in CallIds : VerifyOtpUpdates(c)
               \/ \E c \in CallIds : VerifyOtpFindsUser(c)
               \/ \E c \in CallIds, req \in RegisterRequests : RegisterBegins(c, req)
               \/ \E c \in CallIds : RegisterSelects(c)
               \/ \E c \in CallIds, id \in UUIDs : RegisterHashed(c, id)
               \/ \E c \in CallIds : UserInserts(c)]_vars

----------------------------------------------------------------------------
(* Vocabulary of the properties *)

Ids(tbl) == {tbl[i].id : i \in DOMAIN tbl}

RowOf(tbl, id) == tbl[CHOOSE i \in DOMAIN tbl : tbl[i].id = id]

\* a name with at least one character
NonEmptyName(x) == x.t = "string" /\ x.v # <<>>

\* a name that is missing, empty or made only of white space
BlankName(x) == x.t # "string" \/ \A k \in DOMAIN x.v : x.v[k] = " "

\* the request handled last was sent by an authenticated actor
Authenticated == authMiddleware(last.req).ok

----------------------------------------------------------------------------
(* Check-in *)

\* C1: a check_in with a non-empty name (and an identifier draw that is not
\* taken) succeeds and adds exactly one record to the store, with an id no
\* earlier record has and a null checkout_time, whatever check-in time the
\* client sent.
C1_CheckInSucceeds ==
    (last.op = "check_in" /\ NonEmptyName(last.req.body.name) /\ last.draw \notin Ids(last.pre))
        => /\ last.status = 200
           /\ Len(visitors) = Len(last.pre) + 1
           /\ SubSeq(visitors, 1, Len(last.pre)) = last.pre
           /\ visitors[Len(visitors)].id \notin Ids(last.pre)
           /\ visitors[Len(visitors)].checkout_time = Null

\* C2: the checkin_time a successful check_in persists and returns is the
\* server's time at the call, whatever the request's checkin_time field is.
C2_ServerTimePersisted ==
    (last.op = "check_in" /\ last.status = 200)
        => /\ visitors[Len(visitors)].checkin_time = Num(last.now)
           /\ last.body.checkin_time = Num(last.now)

\* C3: a check_in whose name is missing, empty or white space only fails
\* with the validation error and leaves the store as it was.
C3_BlankNameRejected ==
    (last.op = "check_in" /\ BlankName(last.req.body.name))
        => last.status = 400 /\ visitors = last.pre

----------------------------------------------------------------------------
(* Check-out *)

\* C4: a check_out by an authenticated actor on an id no stored visitor has
\* fails with a not-found error and leaves the store as it was.
C4_UnknownIdNotFound ==
    (last.op = "check_out" /\ Authenticated /\ last.req.params.id \notin Ids(last.pre))
        => last.status = 404 /\ visitors = last.pre

\* a step creates a record with a null checkout_time, and changes the
\* checkout_time of a record only as a check_out of that record's id by an
\* authenticated actor, to the server time of the call
CheckoutTimeWrittenByCheckOut ==
    \A id \in Ids(visitors') :
        LET new == RowOf(visitors', id).checkout_time IN
        IF id \notin Ids(visitors) THEN new = Null
        ELSE new # RowOf(visitors, id).checkout_time
                => /\ last'.op = "check_out"
                   /\ authMiddleware(last'.req).ok
                   /\ last'.req.params.id = id
                   /\ new = Num(last'.now)

\* after a successful check_out of a stored visitor, its checkout_time is
\* the server time of the call, which is not before the call was sent
CheckoutTimeIsServerTime ==
    (last.op = "check_out" /\ last.status = 200)
        => \A id \in Ids(visitors) :
              id = last.req.params.id
                 => /\ RowOf(visitors, id).checkout_time = Num(last.now)
                    /\ RowOf(visitors, id).checkout_time.v >= last.invoked

\* C5: a visitor's checkout_time is null unless a check_out for its id was
\* executed by an authenticated actor; once such a call completes, the
\* checkout_time is the server time of the call, at or after the time at
\* which the call was invoked.
C5_CheckoutTimeOnlyByCheckOut ==
    [][CheckoutTimeWrittenByCheckOut]_vars /\ []CheckoutTimeIsServerTime

\* a visitor is checked out by a call that was sent before the second in
\* which the server handled it
C5_Witness ==
    /\ last.op = "check_out" /\ last.status = 200
    /\ last.req.params.id \in Ids(visitors)
    /\ RowOf(visitors, last.req.params.id).checkout_time = Num(last.now)
    /\ last.invoked < last.now

\* C6: once a visitor's checkout_time is not null, it is not null in every
\* later state: no operation undoes a check-out or checks the record in again.
C6_CheckOutIrreversible ==
    [][\A id \in Ids(visitors) :
          RowOf(visitors, id).checkout_time # Null
             => id \in Ids(visitors') /\ RowOf(visitors', id).checkout_time # Null]_vars

\* a visitor is checked out, and an operation was handled after that: a
\* check_in that drew the same id, or a second check_out of it
C6_Witness ==
    \E id \in Ids(visitors) :
        /\ RowOf(visitors, id).checkout_time # Null
        /\ id \in Ids(last.pre) /\ RowOf(last.pre, id).checkout_time # Null
        /\ \/ last.op = "check_in" /\ last.draw = id
           \/ last.op = "check_out" /\ last.req.params.id = id

\* C7: the stored checkout_time of a visitor is written at most once: once
\* it is not null it never changes value.
C7_CheckoutTimeWrittenOnce ==
    [][\A id \in Ids(visitors) :
          (RowOf(visitors, id).checkout_time # Null /\ id \in Ids(visitors'))
             => RowOf(visitors', id).checkout_time = RowOf(visitors, id).checkout_time]_vars

----------------------------------------------------------------------------
(* The records *)

\* no two stored visitors have the same id
UniqueIds == \A i, j \in DOMAIN visitors : visitors[i].id = visitors[j].id => i = j

\* no step changes the id of a stored record
IdsKept == \A i \in DOMAIN visitors : i \in DOMAIN visitors' /\ visitors'[i].id = visitors[i].id

\* C8: the id of a visitor is unique and immutable: no two stored visitors
\* share an id, and no operation changes the id of a record.
C8_IdUniqueAndImmutable == []UniqueIds /\ [][IdsKept]_vars

\* a check_in drew the id of a stored visitor, and the store still holds
\* that visitor and another one
C8_Witness ==
    /\ last.op = "check_in" /\ last.draw \in Ids(last.pre)
    /\ Len(visitors) >= 2

\* C9: no operation deletes a visitor: every id in the store is in the
\* store in every later state.
C9_NoVisitorDeleted == [][Ids(visitors) \subseteq Ids(visitors')]_vars

\* a stored visitor has been checked out, and the store holds another one
C9_Witness ==
    /\ last.op = "check_out" /\ last.status = 200
    /\ last.req.params.id \in Ids(visitors)
    /\ Len(visitors) >= 2

----------------------------------------------------------------------------
(* Listing *)

\* the number a query parameter stands for: the default when it is absent
BoundOf(q, default) ==
    IF q = Undefined THEN default
    ELSE CHOOSE n \in 0..9 : q = Str(ToString10(n))

NumericBound(q) == q = Undefined \/ \E n \in 0..9 : q = Str(ToString10(n))

\* C10: list(from, to) returns exactly the stored visitors whose
\* checkin_time lies in [from, to] (from is 0 and to the server time when
\* absent), each once, ordered by checkin_time descending.
C10_ListInRangeDescending ==
    (/\ last.op = "list" /\ last.status = 200
     /\ NumericBound(last.req.query.from) /\ NumericBound(last.req.query.to))
        => LET from == BoundOf(last.req.query.from, 0)
               to == BoundOf(last.req.query.to, last.now)
               body == last.body
               inRange == {id \in Ids(visitors) :
                              /\ from <= RowOf(visitors, id).checkin_time.v
                              /\ RowOf(visitors, id).checkin_time.v <= to}
           IN  /\ {body[k].id : k \in DOMAIN body} = inRange
               /\ Len(body) = Cardinality(inRange)
               /\ \A k \in DOMAIN body :
                     [body[k] EXCEPT !.photo = RowOf(visitors, body[k].id).photo]
                        = RowOf(visitors, body[k].id)
               /\ \A k \in 1..(Len(body) - 1) :
                     body[k].checkin_time.v >= body[k + 1].checkin_time.v

\* a listing with both bounds given returns two visitors, the first
\* checked in at the upper bound and the second at the lower bound
C10_Witness ==
    /\ last.op = "list" /\ last.status = 200
    /\ last.req.query.from # Undefined /\ NumericBound(last.req.query.from)
    /\ last.req.query.to # Undefined /\ NumericBound(last.req.query.to)
    /\ Len(last.body) = 2
    /\ last.body[1].checkin_time = Num(BoundOf(last.req.query.to, 0))
    /\ last.body[2].checkin_time = Num(BoundOf(last.req.query.from, 0))
    /\ last.body[1].checkin_time.v > last.body[2].checkin_time.v

----------------------------------------------------------------------------
(* The timestamps *)

\* q = floor(t / 1000), for t of four digits or more: the digits of t are
\* those of q followed by three more
IsThousandth(q, t) ==
    /\ IsNumber(q)
    /\ Len(DigitsOf(t)) = Len(DigitsOf(q)) + 3
    /\ SubSeq(DigitsOf(t), 1, Len(DigitsOf(q))) = DigitsOf(q)

\* 10,000,000,000
TenBillion == Big(1, <<"1">> \o Fill("0", 10))

\* 10,000,000,000,999: the largest t with floor(t / 1000) <= 10,000,000,000
LargestMillis == Big(1, <<"1">> \o Fill("0", 10) \o Fill("9", 3))

\* normalize(t) = t when t <= 10,000,000,000, floor(t / 1000) when above
UnitCorrect ==
    (last.op = "normalized" /\ IsNumber(last.checkin_time))
        => IF Leq(last.checkin_time, TenBillion)
           THEN last.out = last.checkin_time
           ELSE IsThousandth(last.out, last.checkin_time)

\* C12: in every reachable state each stored visitor has a checkin_time
\* that is present and in epoch seconds, never a count of milliseconds above
\* 10,000,000,000: the write path normalizes what it stores.
C12_StoredTimeInSeconds ==
    \A i \in DOMAIN visitors :
        /\ IsNumber(visitors[i].checkin_time)
        /\ Leq(visitors[i].checkin_time, TenBillion)

\* C11: normalize(t) = t when t <= 10,000,000,000, normalize(t) =
\* floor(t / 1000) when t > 10,000,000,000, and normalize(normalize(t)) =
\* normalize(t), for every numeric t.
C11_NormalizeIdempotent ==
    /\ UnitCorrect
    /\ (last.op = "normalized" /\ IsNumber(last.checkin_time))
           => NormalizeCheckinTime(last.out) = last.out

\* C11, amended: normalize(t) = t when t <= 10,000,000,000, normalize(t) =
\* floor(t / 1000) when t > 10,000,000,000, and normalize(normalize(t)) =
\* normalize(t) for every t <= 10,000,000,000,999.
C11_NormalizeIdempotentInRange ==
    /\ UnitCorrect
    /\ (/\ last.op = "normalized" /\ IsNumber(last.checkin_time)
        /\ Leq(last.checkin_time, LargestMillis))
           => NormalizeCheckinTime(last.out) = last.out

\* a count of milliseconds was divided by 1000, and the result is left
\* alone by a second normalization
C11_Witness ==
    /\ last.op = "normalized" /\ IsNumber(last.checkin_time)
    /\ ~Leq(last.checkin_time, TenBillion)
    /\ Leq(last.checkin_time, LargestMillis)
    /\ last.out # last.checkin_time
    /\ IsThousandth(last.out, last.checkin_time)
    /\ NormalizeCheckinTime(last.out) = last.out

----------------------------------------------------------------------------
(* The reports *)

\* the window size a request asks for: the default when none is given
SizeOf(q, default) ==
    IF q = Undefined THEN default
    ELSE CHOOSE n \in -9..99 : q = Str(ToString10(n))

\* min(hi, max(lo, n))
Clamp(lo, hi, n) == IF n < lo THEN lo ELSE IF n > hi THEN hi ELSE n

TwoDigits(n) == <<DigitChars[(n \div 10) + 1], DigitChars[(n % 10) + 1]>>

\* the label YYYY-MM-DD of the calendar day of time t in the zone tz
LocalDayLabel(tz, t) ==
    LET f == LocalFields(tz, t) IN
    Str(ToString10(f.year) \o <<"-">> \o TwoDigits(f.month + 1) \o <<"-">> \o TwoDigits(f.date))

\* the number of the local calendar day of time t in the zone tz
LocalDay(tz, t) == (t + tz * 60) \div SecondsPerDay

\* the months since year 0 of the calendar month of time t in the zone tz
LocalMonth(tz, t) == LocalFields(tz, t).year * 12 + LocalFields(tz, t).month

\* the label YYYY-MM of the month that is m months after year 0
LabelOfMonth(m) == Str(ToString10(m \div 12) \o <<"-">> \o TwoDigits((m % 12) + 1))

\* a < b, on labels made of digits and hyphens, of the same length
RECURSIVE LabelLess(_, _)
LabelLess(a, b) ==
    /\ a # <<>>
    /\ \/ IsDigit(Head(a)) /\ IsDigit(Head(b)) /\ DigitVal(Head(a)) < DigitVal(Head(b))
       \/ Head(a) = Head(b) /\ LabelLess(Tail(a), Tail(b))

RECURSIVE SumOfCounts(_)
SumOfCounts(entries) ==
    IF entries = <<>> THEN 0 ELSE Head(entries).count.v + SumOfCounts(Tail(entries))

\* the times of the stored visitors
TimesOf(tbl) == [i \in DOMAIN tbl |-> tbl[i].checkin_time.v]

\* C13: daily_counts(days) returns exactly `days` entries (7 when no size
\* is given), oldest first, labelled with the `days` consecutive local
\* calendar days that end today, each with a count that is zero or more.
C13_DailyEntriesAreLastDays ==
    (last.op = "daily" /\ last.status = 200)
        => LET n == SizeOf(last.req.query.days, 7) IN
           /\ Len(last.body) = n
           /\ \A k \in 1..n :
                 /\ last.body[k].date
                       = LocalDayLabel(last.tz, last.now - (n - k) * SecondsPerDay)
                 /\ last.body[k].count.t = "number" /\ last.body[k].count.v >= 0

\* C14: the sum of the counts of daily_counts(days) is the number of stored
\* visitors whose checkin_time lies in the union of the day windows, from
\* the first second of the first day to the last second of today: no
\* visitor is counted twice and every visitor inside is counted once.
C14_DailySumIsUnion ==
    (last.op = "daily" /\ last.status = 200)
        => LET n == SizeOf(last.req.query.days, 7)
               today == LocalDay(last.tz, last.now)
               first == (today - n + 1) * SecondsPerDay - last.tz * 60
               end == (today + 1) * SecondsPerDay - 1 - last.tz * 60
               times == TimesOf(visitors)
           IN  SumOfCounts(last.body)
                  = Cardinality({i \in DOMAIN times : first <= times[i] /\ times[i] <= end})

\* a report over a store with a visitor checked in at the first second of
\* a day of the range, who is counted, and a visitor checked in before the
\* range, who is not
C14_Witness ==
    /\ last.op = "daily" /\ last.status = 200
    /\ Len(visitors) = 2
    /\ SumOfCounts(last.body) = 1
    /\ \E i \in DOMAIN visitors :
          /\ (visitors[i].checkin_time.v + last.tz * 60) % SecondsPerDay = 0
          /\ LocalDay(last.tz, visitors[i].checkin_time.v) = LocalDay(last.tz, last.now)
    /\ \E i \in DOMAIN visitors :
          LocalDay(last.tz, visitors[i].checkin_time.v) < LocalDay(last.tz, last.now) - 7

\* C15: daily_counts counts each visitor in the entry of its own calendar
\* day: the count of the entry labelled D is the number of visitors checked
\* in on local calendar day D, and a visitor checked in before the range is
\* counted in no entry.
C15_DailyByOwnDay ==
    (last.op = "daily" /\ last.status = 200)
        => LET times == TimesOf(visitors) IN
           \A k \in DOMAIN last.body :
              last.body[k].count.v
                 = Cardinality({i \in DOMAIN times :
                                   LocalDayLabel(last.tz, times[i]) = last.body[k].date})

\* C16: monthly_counts(months) returns exactly `months` entries (6 when no
\* size is given), oldest first, with strictly increasing labels YYYY-MM of
\* the consecutive calendar months that end with the current one, each with
\* the number of visitors checked in during that month, zero included.
C16_MonthlyEntries ==
    (last.op = "monthly" /\ last.status = 200)
        => LET n == SizeOf(last.req.query.months, 6)
               current == LocalMonth(last.tz, last.now)
               times == TimesOf(visitors)
           IN  /\ Len(last.body) = n
               /\ \A k \in 1..n :
                     /\ last.body[k].month = LabelOfMonth(current - (n - k))
                     /\ last.body[k].count
                           = Num(Cardinality({i \in DOMAIN times :
                                    LocalMonth(last.tz, times[i]) = current - (n - k)}))
               /\ \A k \in 1..(n - 1) :
                     LabelLess(last.body[k].month.v, last.body[k + 1].month.v)

\* a report of six months, over a year's end, with one visitor checked in
\* in the current month, one in the month before and none in the month
\* before that
C16_Witness ==
    /\ last.op = "monthly" /\ last.status = 200
    /\ Len(last.body) = 6
    /\ last.body[4].count = Num(0)
    /\ last.body[5].count = Num(1)
    /\ last.body[6].count = Num(1)
    /\ last.body[5].month.v[4] # last.body[6].month.v[4]
    /\ Len(visitors) = 2

\* C17: the window sizes are clamped, never rejected: for every integer N
\* asked for, daily_counts answers with success and min(30, max(1, N))
\* entries, monthly_counts with success and min(24, max(1, N)) entries.
C17_SizesClamped ==
    /\ (last.op = "daily" /\ Authenticated)
          => /\ last.status = 200
             /\ Len(last.body) = Clamp(1, 30, SizeOf(last.req.query.days, 7))
    /\ (last.op = "monthly" /\ Authenticated)
          => /\ last.status = 200
             /\ Len(last.body) = Clamp(1, 24, SizeOf(last.req.query.months, 6))

\* 31 days were asked for and 30 entries returned
C17_Witness ==
    /\ last.op = "daily" /\ last.status = 200
    /\ SizeOf(last.req.query.days, 7) > 30
    /\ Len(last.body) = 30

\* C18: the read operations are read-only: after daily_counts,
\* monthly_counts or list, with any argument and credential, the store
\* holds the records it held before, every field unchanged.
C18_ReadsLeaveStore ==
    last.op \in {"list", "daily", "monthly"} => visitors = last.pre

\* a daily report has counted a visitor who is checked out and one who is
\* not
C18_Witness ==
    /\ last.op = "daily" /\ last.status = 200
    /\ SumOfCounts(last.body) = 2
    /\ \E i, j \in DOMAIN visitors :
          visitors[i].checkout_time # Null /\ visitors[j].checkout_time = Null

----------------------------------------------------------------------------
(* Frame of check_out, credentials *)

\* C19: check_out(id) changes nothing but the checkout_time of the visitor
\* with that id: its other fields, and every other record, are after the
\* call what they were before it.
C19_CheckOutChangesOnlyCheckoutTime ==
    last.op = "check_out"
        => /\ Len(visitors) = Len(last.pre)
           /\ \A i \in DOMAIN visitors :
                 IF last.pre[i].id = last.req.params.id
                 THEN [visitors[i] EXCEPT !.checkout_time = last.pre[i].checkout_time]
                         = last.pre[i]
                 ELSE visitors[i] = last.pre[i]

\* a visitor with fields filled in and a creator has been checked out,
\* and the store holds another visitor who is not
C19_Witness ==
    /\ last.op = "check_out" /\ last.status = 200
    /\ \E i, j \in DOMAIN visitors :
          /\ visitors[i].id = last.req.params.id
          /\ visitors[i].checkout_time # last.pre[i].checkout_time
          /\ visitors[i].created_by # Null /\ visitors[i].phone # Str(<<>>)
          /\ i # j /\ visitors[j].checkout_time = Null

\* the Authorization header of the request handled last is a bearer
\* credential issued to a user
ValidCredential ==
    \E u \in UserIds : last.req.auth = Str(<<"Bearer ">> \o signToken([id |-> u]))

\* C20: check_out, list, daily_counts and monthly_counts asked for without
\* a valid bearer credential (none, malformed, or failing verification) are
\* rejected with an auth error, return no visitor data and leave the store
\* unchanged; check_in is accepted without a credential.
C20_AuthRequired ==
    /\ (last.op \in {"check_out", "list", "daily", "monthly"} /\ ~ValidCredential)
          => /\ last.status = 401
             /\ DOMAIN last.body = {"error"}
             /\ visitors = last.pre
    /\ (/\ last.op = "check_in" /\ last.req.auth = Undefined
        /\ NonEmptyName(last.req.body.name) /\ last.draw \notin Ids(last.pre))
          => last.status = 200 /\ Len(visitors) = Len(last.pre) + 1

\* a listing with a bearer token that fails verification was refused,
\* with a visitor in the store, who was checked in without a credential
C20_Witness ==
    /\ last.op = "list" /\ last.status = 401
    /\ HasBearer(last.req.auth) /\ ~ValidCredential
    /\ Len(visitors) >= 1
    /\ \E i \in DOMAIN visitors : visitors[i].created_by = Null

----------------------------------------------------------------------------
(* Photos, repeated check-outs, report sizes, visibility *)

\* the request handled last carried a photo: an uploaded file or an
\* inline image
PhotoSupplied == last.req.file # Undefined \/ Truthy(last.req.body.photo)

\* C22: a photo failure never fails a check_in: with a non-empty name (and
\* an identifier draw that is not taken), a check_in that carries a photo
\* persists the visitor and returns it, with a null photo reference when
\* the photo could not be resolved or stored.
C22_PhotoFailureTolerated ==
    (/\ last.op = "check_in" /\ PhotoSupplied
     /\ NonEmptyName(last.req.body.name) /\ last.draw \notin Ids(last.pre))
        => /\ last.status = 200
           /\ Len(visitors) = Len(last.pre) + 1
           /\ (\/ ~last.diskOk
               \/ last.req.file = Undefined /\ ~MatchDataUrl(last.req.body.photo.v))
                 => last.body.photo = Null

\* C24: check_out is not idempotent: a check_out by an authenticated actor
\* of a visitor who is already checked out succeeds and overwrites
\* checkout_time with the server time of this call, which is greater than
\* or equal to the value it replaces.
C24_SecondCheckOutOverwrites ==
    (/\ last.op = "check_out" /\ Authenticated
     /\ last.req.params.id \in Ids(last.pre)
     /\ RowOf(last.pre, last.req.params.id).checkout_time # Null)
        => /\ last.status = 200
           /\ last.body.checkout_time = Num(last.now)
           /\ RowOf(visitors, last.req.params.id).checkout_time = Num(last.now)
           /\ last.now >= RowOf(last.pre, last.req.params.id).checkout_time.v

\* a visitor checked out in one second was checked out again in a later
\* one, and the stored time is the later one
C24_Witness ==
    /\ last.op = "check_out" /\ last.status = 200
    /\ last.req.params.id \in Ids(last.pre)
    /\ RowOf(last.pre, last.req.params.id).checkout_time # Null
    /\ RowOf(last.pre, last.req.params.id).checkout_time # Num(last.now)
    /\ RowOf(visitors, last.req.params.id).checkout_time = Num(last.now)

\* C28: every successful daily report has between 1 and 30 entries and
\* every successful monthly report between 1 and 24, whatever the size
\* parameter is: absent, zero, negative, too large, or no number.
C28_ReportSizesInRange ==
    /\ (last.op = "daily" /\ last.status = 200)
          => 1 <= Len(last.body) /\ Len(last.body) <= 30
    /\ (last.op = "monthly" /\ last.status = 200)
          => 1 <= Len(last.body) /\ Len(last.body) <= 24

\* C29: no orphan photo: every file in the uploads directory is the photo
\* of some stored visitor, after check_ins of every kind, failed ones
\* included.
C29_NoOrphanPhoto ==
    \A f \in uploads :
        \E i \in DOMAIN visitors : visitors[i].photo = Str(<<"/uploads/">> \o f)

\* C30: every stored visitor is visible: a successful list() with default
\* bounds returns every visitor in the store, with the checkout_time it
\* has.
C30_StoredVisitorsListed ==
    (/\ last.op = "list" /\ last.status = 200
     /\ last.req.query.from = Undefined /\ last.req.query.to = Undefined)
        => \A i \in DOMAIN visitors :
              \E k \in DOMAIN last.body :
                 /\ last.body[k].id = visitors[i].id
                 /\ last.body[k].checkout_time = visitors[i].checkout_time

----------------------------------------------------------------------------
(* The CSV export *)

\* s.split(sep)
RECURSIVE Split(_, _)
Split(s, sep) ==
    IF \A i \in DOMAIN s : s[i] # sep THEN <<s>>
    ELSE LET i == CHOOSE j \in DOMAIN s : s[j] = sep /\ \A h \in 1..(j - 1) : s[h] # sep
         IN  <<SubSeq(s, 1, i - 1)>> \o Split(SubSeq(s, i + 1, Len(s)), sep)

\* the characters of a field of list(): none for null
FieldText(x) == IF x.t = "string" THEN x.v ELSE <<>>

\* C23: the CSV export is lossless: for a list that is not empty it has a
\* header row and exactly one row per visitor, and splitting a row on the
\* comma gives, under each column of the header, the value the record has
\* for it, unchanged, for every field of every record.
C23_CsvLossless ==
    (last.op = "exported" /\ last.rows # <<>>)
        => LET lines == Split(last.csv, "\n")
               header == Split(lines[1], ",")
           IN  /\ Len(lines) = 1 + Len(last.rows)
               /\ \A k \in DOMAIN last.rows :
                     LET fields == Split(lines[k + 1], ",") IN
                     /\ Len(fields) = Len(header)
                     /\ \A c \in DOMAIN last.rows[k] :
                           \E j \in DOMAIN header :
                              /\ header[j] = <<c>>
                              /\ fields[j] = FieldText(last.rows[k][c])

\* text with something other than white space in it
HasText(s) == \E i \in 1..Len(s) : s[i] # " "

\* POST /visitors takes a body with a name and an empty phone
PhoneOptional ==
    \A id \in UUIDs :
        CreateVisitor(JsonRequest(Str(<<"A">>), Undefined, Undefined, Str(<<>>), Undefined),
                      id, Undefined, TRUE).status = 200

Authorized == {Str(<<"Bearer ">> \o signToken([id |-> u])) : u \in UserIds}

\* the finished check-outs of authenticated actors
DoneCheckOuts ==
    {c \in DOMAIN calls : calls[c].at = "done" /\ calls[c].op = "checkout"
                          /\ calls[c].req.auth \in Authorized}

\* C25: check-outs that overlap all succeed, each answering with the time
\* it took itself, and whenever the UPDATE of one has just executed the
\* visitors of its id hold its time, whatever they held before and in
\* whatever order the calls began: the write that executes last stays.
C25_LastWriteWins ==
    /\ \A c \in DoneCheckOuts :
          /\ calls[c].status = 200
          /\ calls[c].body = [id |-> calls[c].req.params.id,
                              checkout_time |-> calls[c].vars.checkout_time]
    /\ (last.op = "executed" /\ last.route = "checkout") =>
          \A i \in DOMAIN visitors :
             visitors[i].id = calls[last.call].req.params.id =>
                visitors[i].checkout_time = calls[last.call].vars.checkout_time

\* two check-outs of the same visitor, begun a second apart, are done; the
\* UPDATE of the one begun first executed last, and the visitor holds the
\* earlier time
C25_Witness ==
    /\ last.op = "executed" /\ last.route = "checkout"
    /\ \E c \in DoneCheckOuts :
          /\ c # last.call
          /\ calls[c].req.params.id = calls[last.call].req.params.id
          /\ calls[last.call].vars.checkout_time.v < calls[c].vars.checkout_time.v
          /\ \E i \in DOMAIN visitors :
                /\ visitors[i].id = calls[c].req.params.id
                /\ visitors[i].checkout_time = calls[last.call].vars.checkout_time

\* the verify-otp calls that were answered 200 on the code of row id
VerifiedWith(id) ==
    {c \in DOMAIN calls :
        /\ calls[c].at = "done" /\ calls[c].op = "verify-otp"
        /\ calls[c].status = 200
        /\ calls[c].vars.row = id}

\* C21: of the verify-otp calls, overlapping or not, at most one is ever
\* answered 200 on a given issued code, and a call is answered 200 only
\* with the code of the row, while the row is not expired (now <=
\* expires_at), the row being marked used from then on.
C21_OtpSingleUse ==
    \A i \in DOMAIN otps :
        /\ Cardinality(VerifiedWith(otps[i].id)) <= 1
        /\ \A c \in VerifiedWith(otps[i].id) :
              /\ otps[i].otp = StringOf(calls[c].req.body.otp)
              /\ calls[c].vars.now <= otps[i].expires_at.v
              /\ otps[i].used = Num(1)

\* the finished register and verify-otp calls that came to insert a user
Inserters ==
    {c \in DOMAIN calls :
        /\ calls[c].at = "done" /\ calls[c].op \in {"register", "verify-otp"}
        /\ "user" \in DOMAIN calls[c].vars}

\* C27: no two rows of users have the same username, however register and
\* verify-otp calls overlap; of the calls that came to insert a user of one
\* name at most one was answered 200 and its row is stored, the others
\* were answered with an error and left the table as it was.
C27_UsernamesUnique ==
    /\ \A u, v \in users : u.username = v.username => u = v
    /\ \A c \in Inserters :
          /\ calls[c].status \in {200, 500}
          /\ calls[c].status = 200 =>
                /\ calls[c].vars.user \in users
                /\ \A d \in Inserters :
                      (d # c /\ calls[d].vars.user.username = calls[c].vars.user.username)
                          => calls[d].status = 500

\* a register and a verify-otp call both found the name free and came to
\* insert it under different ids: one was answered 200, the other 500, and
\* one row is stored
C27_Witness ==
    \E c, d \in Inserters :
        /\ calls[c].op = "register" /\ calls[d].op = "verify-otp"
        /\ calls[c].vars.user.username = calls[d].vars.user.username
        /\ calls[c].vars.user.id # calls[d].vars.user.id
        /\ calls[c].status = 500 /\ calls[d].status = 200
        /\ Cardinality(users) = 1

====
